---- MODULE Spec2Model ----
(***************************************************************************)
(* Turn-based artillery game engine (src/src/engine.ts, src/src/sprite.ts) *)
(* as a state machine: the occupancy grid, the sprites, the per-player     *)
(* economy, the match state, the pointer-driven input handlers, the        *)
(* simulation tick and the scripted opponent.                              *)
(*                                                                         *)
(* Scaling.  The engine works in pixels on a grid sized from the screen.   *)
(* Here lengths are integers: one tile is TILE_SIZE units, the speed cap   *)
(* MAX_VELOCITY is half a tile per tick as in the engine (8 px of 16 px),  *)
(* and drags are axis-aligned so that the speed clamp of applyPhysics is   *)
(* exact integer arithmetic.  The gravity cache of the grid is kept in      *)
(* fixed point (variable gravity).  Its accelerations (a few px/tick^2 at  *)
(* most) are below the resolution of the velocities of the tick: the       *)
(* acceleration that the tick adds to a velocity is 0.  The integrators    *)
(* are modelled on their own, on vectors in fixed point (SpecPhysics).     *)
(***************************************************************************)
EXTENDS Integers, Sequences, FiniteSets, TLC

\* ------------------------------------------------------------------ bounds
\* sprites that can be created after world generation, projectiles in
\* flight, and turns that can be ended
MaxSprites == 2
MaxProjectiles == 2
MaxTurns == 2

\* ------------------------------------------- program constants, scaled
\* the grid (sized from the screen in the engine), the tile, the speed cap
\* (half a tile), the collision radii in tiles, and the AI's delays in ticks
GRID_WIDTH == 12
GRID_HEIGHT == 5
TILE_SIZE == 2
MAX_VELOCITY == 1
PLANET_RADIUS == 1
ASTEROID_RADIUS == 1
BLACK_HOLE_RADIUS == 1
AI_THINK_DELAY == 2
AI_ACTION_DELAY == 1

\* ------------------------------------------------------- program constants
PLANET_HEALTH == 1000
ASTEROID_HEALTH == 500
BUNNY_HEALTH == 100
BUNNY_HIT_DAMAGE == 10000
TURRET_HEALTH == 200
TURRET_AMMO == 3
TURRET_DAMAGE == 200
TURRET_REGEN == 1
LASER_HEALTH == 150
LASER_AMMO == 6
LASER_DAMAGE == 75
LASER_REGEN == 2
MINE_HEALTH == 100
SOLAR_HEALTH == 80
START_ORE == 200
START_ENERGY == 50
SOLAR_ENERGY_BONUS == 50
FIRE_ENERGY_COST == 15
baseOreIncome == 50
orePerMine == 75

NoSprite == 0
Undef == -1

Players == {1, 2}
Cells == (0 .. GRID_WIDTH - 1) \X (0 .. GRID_HEIGHT - 1)
NumWorld == 3
SpriteIds == 1 .. (NumWorld + MaxSprites)

Other(p) == IF p = 1 THEN 2 ELSE 1

Min(a, b) == IF a < b THEN a ELSE b
Max(a, b) == IF a > b THEN a ELSE b
Abs(a) == IF a < 0 THEN -a ELSE a
Sign(a) == IF a < 0 THEN -1 ELSE IF a > 0 THEN 1 ELSE 0

\* a / b for b > 0, rounded to nearest
roundDiv(a, b) ==
  IF a >= 0 THEN (2 * a + b) \div (2 * b) ELSE -((2 * (-a) + b) \div (2 * b))

\* Math.sqrt, rounded to nearest
sqrtN(n) ==
  LET r == CHOOSE k \in 0 .. n : k * k <= n /\ (k + 1) * (k + 1) > n
  IN IF n - r * r > r THEN r + 1 ELSE r

\* Math.sqrt(vx * vx + vy * vy)
magnitude(vx, vy) == sqrtN(vx * vx + vy * vy)

InBounds(x, y) == x >= 0 /\ x < GRID_WIDTH /\ y >= 0 /\ y < GRID_HEIGHT

\* ---------------------------------------------------------------- sprites
\* GameSprite subclasses: the constructor arguments that the engine reads.
TypeOf(kind) ==
  CASE kind = "bunny" -> "Building"
    [] kind = "turret" -> "Weapon"
    [] kind = "laserTurret" -> "Weapon"
    [] kind = "mine" -> "Resource"
    [] kind = "solarPanel" -> "Resource"
    [] kind = "asteroid" -> "Debris"
    [] kind = "blackhole" -> "???"
    [] kind = "planet" -> "Planet"
    [] OTHER -> "Unknown"

MaxHealthOf(kind) ==
  CASE kind = "bunny" -> BUNNY_HEALTH
    [] kind = "turret" -> TURRET_HEALTH
    [] kind = "laserTurret" -> LASER_HEALTH
    [] kind = "mine" -> MINE_HEALTH
    [] kind = "solarPanel" -> SOLAR_HEALTH
    [] kind = "asteroid" -> ASTEROID_HEALTH
    [] kind = "blackhole" -> 0
    [] kind = "planet" -> PLANET_HEALTH
    [] OTHER -> 100

RadiusOf(kind) ==
  CASE kind = "asteroid" -> ASTEROID_RADIUS
    [] kind = "blackhole" -> BLACK_HOLE_RADIUS
    [] kind = "planet" -> PLANET_RADIUS
    [] OTHER -> 0

ShapeOf(kind) ==
  IF kind \in {"turret", "laserTurret", "mine", "solarPanel"}
  THEN "square" ELSE "circle"

ImmutableOf(kind) == kind \notin {"bunny", "generic"}

\* turret.ammo !== undefined
HasAmmo(kind) == kind \in {"turret", "laserTurret"}
MaxAmmoOf(kind) == IF kind = "turret" THEN TURRET_AMMO ELSE LASER_AMMO
DamageOf(kind) == IF kind = "turret" THEN TURRET_DAMAGE ELSE LASER_DAMAGE
RegenOf(kind) == IF kind = "turret" THEN TURRET_REGEN ELSE LASER_REGEN

NameOf(kind) ==
  CASE kind = "bunny" -> "Building"
    [] kind = "turret" -> "Turret"
    [] kind = "laserTurret" -> "Laser Turret"
    [] kind = "mine" -> "Mine"
    [] kind = "solarPanel" -> "Solar Panel"
    [] kind = "asteroid" -> "Asteroid"
    [] kind = "blackhole" -> "Black Hole"
    [] OTHER -> "Unknown"

NullSprite ==
  [kind |-> "none", name |-> "none", owner |-> 0, health |-> 0, ammo |-> 0,
   x |-> 0, y |-> 0, vx |-> 0, vy |-> 0]

\* createSprite(kind, ...): a sprite that is not yet on the grid
createSprite(kind, name) ==
  [kind |-> kind, name |-> name, owner |-> 0, health |-> MaxHealthOf(kind),
   ammo |-> IF HasAmmo(kind) THEN MaxAmmoOf(kind) ELSE 0,
   x |-> 0, y |-> 0, vx |-> 0, vy |-> 0]

\* ------------------------------------------------------------------- grid
EmptyCell == [occupied |-> FALSE, sprite |-> NoSprite, centerX |-> Undef, centerY |-> Undef]

gridToWorld(gx, gy) ==
  <<gx * TILE_SIZE + (TILE_SIZE \div 2), gy * TILE_SIZE + (TILE_SIZE \div 2)>>

\* Math.floor(world / TILE_SIZE)
worldToGrid(wx) == wx \div TILE_SIZE

\* getCellsInRadius for the circle and square shapes, as a set of <<x, y>>
getCellsInRadius(cx, cy, radius, shape) ==
  IF shape = "square"
  THEN IF radius = 0
       THEN {<<cx + dx, cy + dy>> : dx \in 0 .. 1, dy \in 0 .. 1}
       ELSE {<<cx + dx, cy + dy>> : dx \in (-radius) .. radius, dy \in (-radius) .. radius}
  ELSE {<<cx + d[1], cy + d[2]>> :
          d \in {e \in ((-radius) .. radius) \X ((-radius) .. radius) :
                   e[1] * e[1] + e[2] * e[2] <= radius * radius}}

\* getCellsInRadius for the rectangle shape with a width and a height: the
\* rows from the bottom one (dy = -halfHeight) narrow by floor(2 * row /
\* (height - 1)) cells, and the offsets are turned by the rotation, here a
\* number of quarter turns, for which the rounding of the rotated offsets is
\* exact.  With height 1 the narrowing is 0 / 0, the row bounds are NaN and
\* the loop over dx does not run.
rotate(dx, dy, quarterTurns) ==
  CASE quarterTurns = 0 -> <<dx, dy>>
    [] quarterTurns = 1 -> <<-dy, dx>>
    [] quarterTurns = 2 -> <<-dx, -dy>>
    [] OTHER -> <<dy, -dx>>

getCellsInRectangle(cx, cy, width, height, quarterTurns) ==
  LET halfWidth == width \div 2
      halfHeight == height \div 2
      effectiveHalfWidth(dy) ==
        LET m == halfWidth - ((2 * (dy + halfHeight)) \div (height - 1))
        IN IF m > 1 THEN m ELSE 1
      offsets ==
        IF height = 1 THEN {}
        ELSE UNION {{<<dx, dy>> :
                       dx \in (-effectiveHalfWidth(dy)) ..
                              (width - halfWidth - (halfWidth - effectiveHalfWidth(dy)) - 1)} :
                    dy \in (-halfHeight) .. (height - halfHeight - 1)}
  IN {<<cx + rotate(o[1], o[2], quarterTurns)[1], cy + rotate(o[1], o[2], quarterTurns)[2]>> :
        o \in offsets}

\* getCellsInRadius lists the cells row by row: a comes before b
listedBefore(a, b) == a[2] < b[2] \/ (a[2] = b[2] /\ a[1] < b[1])

\* the loop that returns after its first pass: only the first listed cell is
\* tested
canPlaceCellsFirstOnly(g, cells) ==
  IF cells = {} THEN TRUE
  ELSE LET c == CHOOSE a \in cells : \A b \in cells : a = b \/ listedBefore(a, b)
       IN IF c[1] < 0 \/ c[1] >= GRID_WIDTH \/ c[2] < 0 \/ c[2] >= GRID_HEIGHT THEN FALSE
          ELSE ~g[c].occupied

\* the loop of canPlaceInRadius over the listed cells: the first cell outside
\* the grid or occupied ends it with false
RECURSIVE canPlaceCells(_, _)
canPlaceCells(g, cells) ==
  IF cells = {} THEN TRUE
  ELSE LET c == CHOOSE a \in cells : \A b \in cells : a = b \/ listedBefore(a, b)
       IN IF c[1] < 0 \/ c[1] >= GRID_WIDTH \/ c[2] < 0 \/ c[2] >= GRID_HEIGHT THEN FALSE
          ELSE IF g[c].occupied THEN FALSE
          ELSE canPlaceCells(g, cells \ {c})

canPlaceInRadius(g, cx, cy, radius, shape) ==
  canPlaceCells(g, getCellsInRadius(cx, cy, radius, shape))

canPlaceInRectangle(g, cx, cy, width, height, quarterTurns) ==
  canPlaceCells(g, getCellsInRectangle(cx, cy, width, height, quarterTurns))


\* ------------------------------------------------------------------ state
VARIABLES
  grid,                 \* Engine.grid: cell -> occupied, sprite, centerX, centerY
  sprites,              \* the GameSprite objects, by identity
  projectiles,          \* Engine.projectiles
  gameOver, winner, currentPlayer,
  playerOre, playerEnergy, playerMaxEnergy, playerMineCount, playerSolarCount,
  player1Base, player2Base,
  gameStarted, isAIMode, aiThinkingDelay,
  mouseDown,            \* the pointer button is held
  isLaunching, launchSprite,
  isDraggingFromToolbar, selectedTexture,
  isDraggingDeleteButton, highlightedBuildingForDelete,
  sound,                \* the last soundManager.play() of the last handler
  shotLog,              \* the shots fired by the last step, in order
  turns,                \* number of endTurn() executed
  gravity,              \* GridCell.gravity of every cell: <<ax, ay>>
  search,               \* the locals of aiFireTurrets during its velocity search
  aimer                 \* the aim preview on display: drag and first velocity

econ == <<playerOre, playerEnergy, playerMaxEnergy, playerMineCount, playerSolarCount>>
match == <<gameOver, winner, currentPlayer>>
bases == <<player1Base, player2Base>>
ui == <<mouseDown, isLaunching, launchSprite, isDraggingFromToolbar, selectedTexture,
        isDraggingDeleteButton, highlightedBuildingForDelete>>
vars == <<grid, sprites, projectiles, gameOver, winner, currentPlayer,
          playerOre, playerEnergy, playerMaxEnergy, playerMineCount, playerSolarCount,
          player1Base, player2Base, gameStarted, isAIMode, aiThinkingDelay,
          mouseDown, isLaunching, launchSprite, isDraggingFromToolbar, selectedTexture,
          isDraggingDeleteButton, highlightedBuildingForDelete, sound, shotLog, turns,
          gravity, search, aimer>>

\* aimerGraphics after clear(): no preview
NoAim == [drag |-> <<0, 0>>, vx |-> 0, vy |-> 0]

\* let bestDistance = Infinity: above every squared distance of the world
Infinity == 1000000

\* no velocity search in progress
NoSearch ==
  [start |-> <<0, 0>>, target |-> <<0, 0>>, next |-> 0,
   bestVx |-> 0, bestVy |-> 0, bestDistance |-> Infinity]

\* this.shieldRadius = Math.round(PLANET_RADIUS * 2.0)
shieldRadius == 2 * PLANET_RADIUS

\* the world that generateWorld produced: the cells its random draws chose
BaseCell1 == <<2, 2>>
BaseCell2 == <<9, 1>>
AsteroidCell == <<6, 1>>

\* number of sprites created so far; the next sprite gets the next identity
NumSprites(ss) == Cardinality({i \in SpriteIds : ss[i].kind # "none"})

\* placeSprite: occupy the footprint, reference the sprite from every cell of
\* it, position the display object.  Returns the new grid and sprites and
\* whether the sprite was placed.
placeSprite(g, ss, gx, gy, id) ==
  LET k == ss[id].kind
      cells == getCellsInRadius(gx, gy, RadiusOf(k), ShapeOf(k))
      w == gridToWorld(gx, gy)
  IN IF ~canPlaceInRadius(g, gx, gy, RadiusOf(k), ShapeOf(k))
     THEN [ok |-> FALSE, grid |-> g, sprites |-> ss]
     ELSE [ok |-> TRUE,
           grid |-> [c \in Cells |->
                       IF c \in cells
                       THEN [occupied |-> TRUE, sprite |-> id, centerX |-> gx, centerY |-> gy]
                       ELSE g[c]],
           sprites |-> [ss EXCEPT ![id].x = w[1], ![id].y = w[2]]]

\* ---------------------------------------------------------------- gravity
\* Accelerations in fixed point, GravUnit units to 1.0, and distances in
\* DistUnit units to the tile.  The radii of the fields are scaled with the
\* grid: a planet's field (35 tiles in the engine) ends inside its shield
\* (50 tiles), an asteroid's field (15 tiles) is shorter.
GravUnit == 1000
DistUnit == 100
PLANET_GRAVITY_RADIUS == 2
PLANET_GRAVITY_STRENGTH == 500
ASTEROID_GRAVITY_RADIUS == 2
ASTEROID_GRAVITY_STRENGTH == 350
BLACK_HOLE_GRAVITY_RADIUS == 2
BLACK_HOLE_GRAVITY_STRENGTH == 1000
PLACED_ASTEROID_GRAVITY_RADIUS == 1
PLACED_ASTEROID_GRAVITY_STRENGTH == 100

\* createGrid: gravity: { ax: 0, ay: 0 } in every cell
NoGravity == [c \in Cells |-> <<0, 0>>]

\* what one pass of the loop body of applyGravityField adds to the cell at
\* offset <<dx, dy>> from the centre: force = strength * (1 - dist / radius),
\* ax = (-dx / dist) * force
fieldAt(dx, dy, radius, strength) ==
  LET dist == sqrtN((dx * dx + dy * dy) * DistUnit * DistUnit)
      num == strength * (radius * DistUnit - dist)
  IN <<roundDiv((-dx) * num, dist * radius), roundDiv((-dy) * num, dist * radius)>>

\* an applyGravityField that writes its field over what a cell holds
applyGravityFieldOverwriting(gr, centerX, centerY, radius, strength) ==
  [c \in Cells |->
     LET dx == c[1] - centerX
         dy == c[2] - centerY
     IN IF Abs(dx) > radius \/ Abs(dy) > radius THEN gr[c]
        ELSE IF dx * dx + dy * dy = 0 \/ dx * dx + dy * dy > radius * radius THEN gr[c]
        ELSE fieldAt(dx, dy, radius, strength)]

\* applyGravityField: the loop over the square around the centre, skipping
\* the cells outside the grid, the centre and the cells beyond the radius
applyGravityField(gr, centerX, centerY, radius, strength) ==
  [c \in Cells |->
     LET dx == c[1] - centerX
         dy == c[2] - centerY
     IN IF Abs(dx) > radius \/ Abs(dy) > radius THEN gr[c]
        ELSE IF dx * dx + dy * dy = 0 \/ dx * dx + dy * dy > radius * radius THEN gr[c]
        ELSE <<gr[c][1] + fieldAt(dx, dy, radius, strength)[1],
               gr[c][2] + fieldAt(dx, dy, radius, strength)[2]>>]

\* the end of placeSprite: the gravity fields it creates for the sprite placed
placeSpriteGravity(gr, kind, gx, gy) ==
  LET g1 == IF kind = "planet"
            THEN applyGravityField(gr, gx, gy, PLANET_GRAVITY_RADIUS, PLANET_GRAVITY_STRENGTH)
            ELSE gr
      g2 == IF TypeOf(kind) = "blackhole"
            THEN applyGravityField(g1, gx, gy, BLACK_HOLE_GRAVITY_RADIUS,
                                   BLACK_HOLE_GRAVITY_STRENGTH)
            ELSE g1
      g3 == IF TypeOf(kind) = "Asteroid"
            THEN applyGravityField(g2, gx, gy, PLACED_ASTEROID_GRAVITY_RADIUS,
                                   PLACED_ASTEROID_GRAVITY_STRENGTH)
            ELSE g2
  IN g3

\* generateWorld: planet 1, planet 2, then the asteroids that keep clear of
\* the shields
DistSq(ax, ay, bx, by) == (ax - bx) * (ax - bx) + (ay - by) * (ay - by)

generateWorld ==
  LET g0 == [c \in Cells |-> EmptyCell]
      s0 == [i \in SpriteIds |-> NullSprite]
      ok1 == canPlaceInRadius(g0, BaseCell1[1], BaseCell1[2], PLANET_RADIUS, "circle")
      s1 == IF ok1 THEN [s0 EXCEPT ![1] = createSprite("planet", "Player 1 Base")] ELSE s0
      p1 == IF ok1 THEN placeSprite(g0, s1, BaseCell1[1], BaseCell1[2], 1)
            ELSE [ok |-> FALSE, grid |-> g0, sprites |-> s0]
      ok2 == canPlaceInRadius(p1.grid, BaseCell2[1], BaseCell2[2], PLANET_RADIUS, "circle")
      s2 == IF ok2 THEN [p1.sprites EXCEPT ![2] = createSprite("planet", "Player 2 Base")]
            ELSE p1.sprites
      p2 == IF ok2 THEN placeSprite(p1.grid, s2, BaseCell2[1], BaseCell2[2], 2)
            ELSE [ok |-> FALSE, grid |-> p1.grid, sprites |-> p1.sprites]
      lim == shieldRadius + ASTEROID_RADIUS
      tooClose ==
        \/ p1.ok /\ DistSq(AsteroidCell[1], AsteroidCell[2], BaseCell1[1], BaseCell1[2]) < lim * lim
        \/ p2.ok /\ DistSq(AsteroidCell[1], AsteroidCell[2], BaseCell2[1], BaseCell2[2]) < lim * lim
      ok3 == ~tooClose /\ canPlaceInRadius(p2.grid, AsteroidCell[1], AsteroidCell[2], ASTEROID_RADIUS, "circle")
      s3 == IF ok3 THEN [p2.sprites EXCEPT ![3] = createSprite("asteroid", "Asteroid")]
            ELSE p2.sprites
      p3 == IF ok3 THEN placeSprite(p2.grid, s3, AsteroidCell[1], AsteroidCell[2], 3)
            ELSE [ok |-> FALSE, grid |-> p2.grid, sprites |-> p2.sprites]
  IN [grid |-> p3.grid, sprites |-> p3.sprites,
      base1 |-> IF ok1 THEN 1 ELSE NoSprite,
      base2 |-> IF ok2 THEN 2 ELSE NoSprite]

\* generateWorld for a planet: placeSprite (which creates the field of a
\* PlanetSprite) and then the field created after the call
planetGravity(gr, placed, cell) ==
  IF placed
  THEN applyGravityField(placeSpriteGravity(gr, "planet", cell[1], cell[2]),
                         cell[1], cell[2], PLANET_GRAVITY_RADIUS, PLANET_GRAVITY_STRENGTH)
  ELSE gr

\* generateWorld for an asteroid: placeSprite, then the asteroid's field
asteroidGravity(gr, placed, cell) ==
  IF placed
  THEN applyGravityField(placeSpriteGravity(gr, "asteroid", cell[1], cell[2]),
                         cell[1], cell[2], ASTEROID_GRAVITY_RADIUS, ASTEROID_GRAVITY_STRENGTH)
  ELSE gr

\* the gravity that generateWorld leaves in the cells
generateGravity ==
  asteroidGravity(
    planetGravity(
      planetGravity(NoGravity, generateWorld.base1 # NoSprite, BaseCell1),
      generateWorld.base2 # NoSprite, BaseCell2),
    generateWorld.sprites[3].kind = "asteroid", AsteroidCell)

Init ==
  /\ grid = generateWorld.grid
  /\ sprites = generateWorld.sprites
  /\ player1Base = generateWorld.base1
  /\ player2Base = generateWorld.base2
  /\ gravity = generateGravity
  /\ search = NoSearch
  /\ aimer = NoAim
  /\ projectiles = <<>>
  /\ gameOver = FALSE
  /\ winner = "none"
  /\ currentPlayer = 1
  /\ playerOre = [p \in Players |-> START_ORE]
  /\ playerEnergy = [p \in Players |-> START_ENERGY]
  /\ playerMaxEnergy = [p \in Players |-> START_ENERGY]
  /\ playerMineCount = [p \in Players |-> 0]
  /\ playerSolarCount = [p \in Players |-> 0]
  /\ gameStarted = FALSE
  /\ isAIMode = FALSE
  /\ aiThinkingDelay = 0
  /\ mouseDown = FALSE
  /\ isLaunching = FALSE
  /\ launchSprite = NoSprite
  /\ isDraggingFromToolbar = FALSE
  /\ selectedTexture = "none"
  /\ isDraggingDeleteButton = FALSE
  /\ highlightedBuildingForDelete = NoSprite
  /\ sound = "none"
  /\ shotLog = <<>>
  /\ turns = 0

\* generateWorld called with a black-hole texture: after the asteroids, a
\* black hole in the middle zone that keeps clear of the shields
BlackHoleCell == <<5, 3>>

generateBlackHoles(world) ==
  LET lim == shieldRadius + BLACK_HOLE_RADIUS
      id == NumSprites(world.sprites) + 1
      inMiddle == /\ 10 * BlackHoleCell[1] >= 2 * GRID_WIDTH - 9
                  /\ 10 * BlackHoleCell[1] < 8 * GRID_WIDTH
      tooClose ==
        \/ /\ world.base1 # NoSprite
           /\ DistSq(BlackHoleCell[1], BlackHoleCell[2], BaseCell1[1], BaseCell1[2]) < lim * lim
        \/ /\ world.base2 # NoSprite
           /\ DistSq(BlackHoleCell[1], BlackHoleCell[2], BaseCell2[1], BaseCell2[2]) < lim * lim
      ok == /\ inMiddle
            /\ ~tooClose
            /\ canPlaceInRadius(world.grid, BlackHoleCell[1], BlackHoleCell[2],
                                BLACK_HOLE_RADIUS, "circle")
      ss == [world.sprites EXCEPT ![id] = createSprite("blackhole", "Black Hole")]
      pl == placeSprite(world.grid, ss, BlackHoleCell[1], BlackHoleCell[2], id)
  IN IF ok THEN [world EXCEPT !.grid = pl.grid, !.sprites = pl.sprites] ELSE world

\* the gravity in the cells after the black holes: placeSprite, then the
\* black hole's field
generateBlackHoleGravity(world, gr) ==
  IF NumSprites(generateBlackHoles(world).sprites) > NumSprites(world.sprites)
  THEN applyGravityField(
         placeSpriteGravity(gr, "blackhole", BlackHoleCell[1], BlackHoleCell[2]),
         BlackHoleCell[1], BlackHoleCell[2],
         BLACK_HOLE_GRAVITY_RADIUS, BLACK_HOLE_GRAVITY_STRENGTH)
  ELSE gr

InitBlackHole ==
  /\ grid = generateBlackHoles(generateWorld).grid
  /\ sprites = generateBlackHoles(generateWorld).sprites
  /\ player1Base = generateWorld.base1
  /\ player2Base = generateWorld.base2
  /\ gravity = generateBlackHoleGravity(generateWorld, generateGravity)
  /\ search = NoSearch
  /\ aimer = NoAim
  /\ projectiles = <<>>
  /\ gameOver = FALSE
  /\ winner = "none"
  /\ currentPlayer = 1
  /\ playerOre = [p \in Players |-> START_ORE]
  /\ playerEnergy = [p \in Players |-> START_ENERGY]
  /\ playerMaxEnergy = [p \in Players |-> START_ENERGY]
  /\ playerMineCount = [p \in Players |-> 0]
  /\ playerSolarCount = [p \in Players |-> 0]
  /\ gameStarted = FALSE
  /\ isAIMode = FALSE
  /\ aiThinkingDelay = 0
  /\ mouseDown = FALSE
  /\ isLaunching = FALSE
  /\ launchSprite = NoSprite
  /\ isDraggingFromToolbar = FALSE
  /\ selectedTexture = "none"
  /\ isDraggingDeleteButton = FALSE
  /\ highlightedBuildingForDelete = NoSprite
  /\ sound = "none"
  /\ shotLog = <<>>
  /\ turns = 0

\* main menu: LOCAL MULTIPLAYER or VS AI, then startGame()
StartGame(ai) ==
  /\ ~gameStarted
  /\ isAIMode' = ai
  /\ gameStarted' = TRUE
  /\ sound' = "none"
  /\ shotLog' = <<>>
  /\ UNCHANGED <<grid, sprites, projectiles, match, econ, bases, gravity, search, aimer, aiThinkingDelay, ui, turns>>

\* ------------------------------------------------- simulation-state record
\* The part of the engine state that the engine's methods read and write,
\* as one value, so that a handler that calls several methods composes them.
Cur ==
  [grid |-> grid, sprites |-> sprites, projectiles |-> projectiles,
   gameOver |-> gameOver, winner |-> winner, currentPlayer |-> currentPlayer,
   playerOre |-> playerOre, playerEnergy |-> playerEnergy,
   playerMaxEnergy |-> playerMaxEnergy, playerMineCount |-> playerMineCount,
   playerSolarCount |-> playerSolarCount, aiThinkingDelay |-> aiThinkingDelay,
   sound |-> "none", shotLog |-> <<>>, turns |-> turns]

Commit(w) ==
  /\ grid' = w.grid
  /\ sprites' = w.sprites
  /\ projectiles' = w.projectiles
  /\ gameOver' = w.gameOver
  /\ winner' = w.winner
  /\ currentPlayer' = w.currentPlayer
  /\ playerOre' = w.playerOre
  /\ playerEnergy' = w.playerEnergy
  /\ playerMaxEnergy' = w.playerMaxEnergy
  /\ playerMineCount' = w.playerMineCount
  /\ playerSolarCount' = w.playerSolarCount
  /\ aiThinkingDelay' = w.aiThinkingDelay
  /\ sound' = w.sound
  /\ shotLog' = w.shotLog
  /\ turns' = w.turns

\* the sprite that a cell shows: its own reference, else its centre's
spriteAt(g, c) ==
  IF g[c].sprite # NoSprite THEN g[c].sprite
  ELSE IF g[c].centerX # Undef /\ g[c].centerY # Undef
       THEN g[<<g[c].centerX, g[c].centerY>>].sprite
       ELSE NoSprite

\* ---------------------------------------------------------- match / turns
\* endGame without its "already over" return
endGameOverwriting(w, winnerName) ==
  [w EXCEPT !.gameOver = TRUE, !.winner = winnerName]

endGame(w, winnerName) ==
  IF w.gameOver THEN w
  ELSE [w EXCEPT !.gameOver = TRUE, !.winner = winnerName]

\* Math.floor(sprite.maxHealth * 0.3)
asteroidBaseReward(maxHealth) == (maxHealth * 3) \div 10

\* Math.floor(Math.random() * 75): the draws that the model considers
OreBonuses == {0, 74}

\* removeSprite that lowers the max energy without capping the energy
removeSpriteUncapped(w, gx, gy, bonus) ==
  LET id == w.grid[<<gx, gy>>].sprite IN
  IF id = NoSprite THEN w
  ELSE
    LET sp == w.sprites[id]
        cells == getCellsInRadius(gx, gy, RadiusOf(sp.kind), ShapeOf(sp.kind))
        g1 == [c \in Cells |-> IF c \in cells THEN EmptyCell ELSE w.grid[c]]
        w1 == [w EXCEPT !.grid = g1, !.sound = "explosion"]
        w2 == IF sp.kind = "planet"
              THEN IF id = player1Base THEN endGame(w1, "Player 2")
                   ELSE IF id = player2Base THEN endGame(w1, "Player 1")
                   ELSE w1
              ELSE w1
        w3 == IF sp.name = "Mine" /\ sp.owner > 0
              THEN [w2 EXCEPT !.playerMineCount[sp.owner] = @ - 1]
              ELSE w2
        w4 == IF sp.name = "Solar Panel" /\ sp.owner > 0
              THEN [w3 EXCEPT !.playerSolarCount[sp.owner] = @ - 1,
                              !.playerMaxEnergy[sp.owner] = @ - SOLAR_ENERGY_BONUS]
              ELSE w3
        w5 == IF TypeOf(sp.kind) = "Debris"
              THEN [w4 EXCEPT !.playerOre[w4.currentPlayer] =
                                 @ + asteroidBaseReward(MaxHealthOf(sp.kind)) + bonus]
              ELSE w4
    IN w5

removeSprite(w, gx, gy, bonus) ==
  LET id == w.grid[<<gx, gy>>].sprite IN
  IF id = NoSprite THEN w
  ELSE
    LET sp == w.sprites[id]
        cells == getCellsInRadius(gx, gy, RadiusOf(sp.kind), ShapeOf(sp.kind))
        g1 == [c \in Cells |-> IF c \in cells THEN EmptyCell ELSE w.grid[c]]
        w1 == [w EXCEPT !.grid = g1, !.sound = "explosion"]
        w2 == IF sp.kind = "planet"
              THEN IF id = player1Base THEN endGame(w1, "Player 2")
                   ELSE IF id = player2Base THEN endGame(w1, "Player 1")
                   ELSE w1
              ELSE w1
        w3 == IF sp.name = "Mine" /\ sp.owner > 0
              THEN [w2 EXCEPT !.playerMineCount[sp.owner] = @ - 1]
              ELSE w2
        w4 == IF sp.name = "Solar Panel" /\ sp.owner > 0
              THEN LET m == w3.playerMaxEnergy[sp.owner] - SOLAR_ENERGY_BONUS IN
                   [w3 EXCEPT !.playerSolarCount[sp.owner] = @ - 1,
                              !.playerMaxEnergy[sp.owner] = m,
                              !.playerEnergy[sp.owner] = IF @ > m THEN m ELSE @]
              ELSE w3
        w5 == IF TypeOf(sp.kind) = "Debris"
              THEN [w4 EXCEPT !.playerOre[w4.currentPlayer] =
                                 @ + asteroidBaseReward(MaxHealthOf(sp.kind)) + bonus]
              ELSE w4
    IN w5

\* the ammo refill of endTurn for one sprite: the loop visits every cell, and
\* every cell of a footprint references the sprite, so the refill runs once
\* per referencing cell
RECURSIVE refill(_, _, _)
refill(ammo, kind, n) ==
  IF n = 0 THEN ammo
  ELSE refill(Min(ammo + RegenOf(kind), MaxAmmoOf(kind)), kind, n - 1)

regenAmmo(sp, player, n) ==
  IF sp.owner = player /\ HasAmmo(sp.kind)
  THEN [sp EXCEPT !.ammo = refill(sp.ammo, sp.kind, n)]
  ELSE sp

\* the sprites that some grid cell references
OnGrid(g) == {g[c].sprite : c \in Cells} \ {NoSprite}
RefCount(g, id) == Cardinality({c \in Cells : g[c].sprite = id})

\* endTurn without its "match over" return
endTurnUnguarded(w) ==
  LET p == IF w.currentPlayer = 1 THEN 2 ELSE 1
      income == baseOreIncome + w.playerMineCount[p] * orePerMine
  IN [w EXCEPT
        !.currentPlayer = p,
        !.playerEnergy[p] = w.playerMaxEnergy[p],
        !.playerOre[p] = @ + income,
        !.sprites = [i \in SpriteIds |->
                       regenAmmo(w.sprites[i], p, RefCount(w.grid, i))],
        !.aiThinkingDelay = IF isAIMode /\ p = 2 THEN AI_THINK_DELAY ELSE @,
        !.turns = @ + 1]

\* endTurn that pays and refills without passing the turn
endTurnSamePlayer(w) ==
  IF w.gameOver THEN w
  ELSE
    LET p == w.currentPlayer
        income == baseOreIncome + w.playerMineCount[p] * orePerMine
    IN [w EXCEPT
          !.playerEnergy[p] = w.playerMaxEnergy[p],
          !.playerOre[p] = @ + income,
          !.sprites = [i \in SpriteIds |->
                         regenAmmo(w.sprites[i], p, RefCount(w.grid, i))],
          !.turns = @ + 1]

endTurn(w) ==
  IF w.gameOver THEN w
  ELSE
    LET p == IF w.currentPlayer = 1 THEN 2 ELSE 1
        income == baseOreIncome + w.playerMineCount[p] * orePerMine
    IN [w EXCEPT
          !.currentPlayer = p,
          !.playerEnergy[p] = w.playerMaxEnergy[p],
          !.playerOre[p] = @ + income,
          !.sprites = [i \in SpriteIds |->
                         regenAmmo(w.sprites[i], p, RefCount(w.grid, i))],
          !.aiThinkingDelay = IF isAIMode /\ p = 2 THEN AI_THINK_DELAY ELSE @,
          !.turns = @ + 1]

\* ------------------------------------------------------------ placement
ORE_COST_TURRET == 150
ORE_COST_LASER == 100
ORE_COST_MINE == 100
ORE_COST_SOLAR == 75
ENERGY_COST_TURRET == 20
ENERGY_COST_MINE == 15
ENERGY_COST_SOLAR == 10
ORE_COST_DOME == 75
ENERGY_COST_DOME == 15

\* the toolbar items; "domeShield" is not a kind that createSprite knows, so
\* the sprite it returns for it is the default GenericSprite
Buildings == {"turret", "laserTurret", "mine", "solarPanel", "domeShield"}
Textures == Buildings \cup {"bunny"}
SpriteKindOf(texture) == IF texture = "domeShield" THEN "generic" ELSE texture

CostOf(kind) ==
  CASE kind = "turret" -> ORE_COST_TURRET
    [] kind = "laserTurret" -> ORE_COST_LASER
    [] kind = "mine" -> ORE_COST_MINE
    [] kind = "solarPanel" -> ORE_COST_SOLAR
    [] kind = "domeShield" -> ORE_COST_DOME
    [] OTHER -> 0

EnergyCostOf(kind) ==
  CASE kind = "turret" -> ENERGY_COST_TURRET
    [] kind = "laserTurret" -> ENERGY_COST_TURRET
    [] kind = "mine" -> ENERGY_COST_MINE
    [] kind = "solarPanel" -> ENERGY_COST_SOLAR
    [] kind = "domeShield" -> ENERGY_COST_DOME
    [] OTHER -> 0

\* distance <= this.shieldRadius from the given player's base centre
isPositionWithinShield(gx, gy, player) ==
  LET base == IF player = 1 THEN player1Base ELSE player2Base
      bc == IF player = 1 THEN BaseCell1 ELSE BaseCell2
  IN IF base = NoSprite THEN FALSE
     ELSE DistSq(gx, gy, bc[1], bc[2]) <= shieldRadius * shieldRadius

\* the shield test made against player 1's base whoever is active
isWithinPlayerShieldOfPlayerOne(w, gx, gy) == isPositionWithinShield(gx, gy, 1)

isWithinPlayerShield(w, gx, gy) == isPositionWithinShield(gx, gy, w.currentPlayer)

\* placement that asks for more than the price: it turns away a player who
\* has exactly the ore or exactly the energy
placeBuildingStrictlyMore(w, texture, gx, gy) ==
  LET p == w.currentPlayer
      kind == SpriteKindOf(texture)
      id == NumSprites(w.sprites) + 1
      rejected == [w EXCEPT !.sound = "invalidPlacement"]
  IN IF w.playerOre[p] <= CostOf(texture) THEN rejected
     ELSE IF w.playerEnergy[p] <= EnergyCostOf(texture) THEN rejected
     ELSE IF ~isWithinPlayerShield(w, gx, gy) THEN rejected
     ELSE IF ~canPlaceInRadius(w.grid, gx, gy, RadiusOf(kind), "circle") THEN rejected
     ELSE
       LET ss == [w.sprites EXCEPT ![id] = [createSprite(kind, NameOf(kind)) EXCEPT !.owner = p]]
           pl == placeSprite(w.grid, ss, gx, gy, id)
       IN IF ~pl.ok THEN rejected
          ELSE
            LET w1 == [w EXCEPT !.grid = pl.grid, !.sprites = pl.sprites,
                                !.playerOre[p] = @ - CostOf(texture),
                                !.playerEnergy[p] = @ - EnergyCostOf(texture),
                                !.sound = "placeBuilding"]
            IN IF kind = "mine"
               THEN [w1 EXCEPT !.playerMineCount[p] = @ + 1]
               ELSE IF kind = "solarPanel"
               THEN [w1 EXCEPT !.playerSolarCount[p] = @ + 1,
                               !.playerMaxEnergy[p] = @ + SOLAR_ENERGY_BONUS]
               ELSE w1

\* placement that takes the ore before it checks the shield and the footprint
placeBuildingPayFirst(w, texture, gx, gy) ==
  LET p == w.currentPlayer
      kind == SpriteKindOf(texture)
      id == NumSprites(w.sprites) + 1
      rejected == [w EXCEPT !.sound = "invalidPlacement"]
      paid == [w EXCEPT !.playerOre[p] = @ - CostOf(texture),
                        !.playerEnergy[p] = @ - EnergyCostOf(texture)]
  IN IF w.playerOre[p] < CostOf(texture) THEN rejected
     ELSE IF w.playerEnergy[p] < EnergyCostOf(texture) THEN rejected
     ELSE IF ~isWithinPlayerShield(w, gx, gy) THEN [paid EXCEPT !.sound = "invalidPlacement"]
     ELSE IF ~canPlaceInRadius(w.grid, gx, gy, RadiusOf(kind), "circle")
     THEN [paid EXCEPT !.sound = "invalidPlacement"]
     ELSE
       LET ss == [w.sprites EXCEPT ![id] = [createSprite(kind, NameOf(kind)) EXCEPT !.owner = p]]
           pl == placeSprite(w.grid, ss, gx, gy, id)
       IN IF ~pl.ok THEN [paid EXCEPT !.sound = "invalidPlacement"]
          ELSE
            LET w1 == [paid EXCEPT !.grid = pl.grid, !.sprites = pl.sprites,
                                   !.sound = "placeBuilding"]
            IN IF kind = "mine"
               THEN [w1 EXCEPT !.playerMineCount[p] = @ + 1]
               ELSE IF kind = "solarPanel"
               THEN [w1 EXCEPT !.playerSolarCount[p] = @ + 1,
                               !.playerMaxEnergy[p] = @ + SOLAR_ENERGY_BONUS]
               ELSE w1

\* the placement branch of the mouseup handler for a turret, laser turret,
\* mine, solar panel or dome shield released over the in-grid cell <<gx, gy>>
placeBuilding(w, texture, gx, gy) ==
  LET p == w.currentPlayer
      kind == SpriteKindOf(texture)
      id == NumSprites(w.sprites) + 1
      rejected == [w EXCEPT !.sound = "invalidPlacement"]
  IN IF w.playerOre[p] < CostOf(texture) THEN rejected
     ELSE IF w.playerEnergy[p] < EnergyCostOf(texture) THEN rejected
     ELSE IF ~isWithinPlayerShield(w, gx, gy) THEN rejected
     ELSE IF ~canPlaceInRadius(w.grid, gx, gy, RadiusOf(kind), "circle") THEN rejected
     ELSE
       LET ss == [w.sprites EXCEPT ![id] = [createSprite(kind, NameOf(kind)) EXCEPT !.owner = p]]
           pl == placeSprite(w.grid, ss, gx, gy, id)
       IN IF ~pl.ok THEN rejected
          ELSE
            LET w1 == [w EXCEPT !.grid = pl.grid, !.sprites = pl.sprites,
                                !.playerOre[p] = @ - CostOf(texture),
                                !.playerEnergy[p] = @ - EnergyCostOf(texture),
                                !.sound = "placeBuilding"]
            IN IF kind = "mine"
               THEN [w1 EXCEPT !.playerMineCount[p] = @ + 1]
               ELSE IF kind = "solarPanel"
               THEN [w1 EXCEPT !.playerSolarCount[p] = @ + 1,
                               !.playerMaxEnergy[p] = @ + SOLAR_ENERGY_BONUS]
               ELSE w1

\* the placement branch for the free "bunny" piece: no cost, no shield check
placeBunny(w, gx, gy) ==
  LET id == NumSprites(w.sprites) + 1
      rejected == [w EXCEPT !.sound = "invalidPlacement"]
  IN IF ~canPlaceInRadius(w.grid, gx, gy, RadiusOf("bunny"), "circle") THEN rejected
     ELSE
       LET ss == [w.sprites EXCEPT ![id] = createSprite("bunny", "Building")]
           pl == placeSprite(w.grid, ss, gx, gy, id)
       IN IF ~pl.ok THEN rejected
          ELSE [w EXCEPT !.grid = pl.grid, !.sprites = pl.sprites, !.sound = "placeBuilding"]

\* --------------------------------------------------------------- firing
\* velocity = drag * velocityScale: 0.1 for missiles and launched pieces,
\* 0.15 for lasers, in units of 0.05
MISSILE_VELOCITY_SCALE == 2
LASER_VELOCITY_SCALE == 3


\* one entry of shotLog
Shot(turret, ownr, shooter, payer, before, cost, ammo) ==
  [turret |-> turret, owner |-> ownr, shooter |-> shooter, payer |-> payer,
   energyBefore |-> before, cost |-> cost, ammoBefore |-> ammo]

newProjectile(turret, sp, vx, vy) ==
  [x |-> sp.x, y |-> sp.y, vx |-> vx, vy |-> vy,
   firingTurret |-> turret, damage |-> DamageOf(sp.kind)]

\* the fire branch that spawns the projectile and takes the energy without
\* using up a round
fireTurretKeepsAmmo(w, id, drag) ==
  LET p == w.currentPlayer
      sp == w.sprites[id]
      scale == IF sp.name = "Laser Turret" THEN LASER_VELOCITY_SCALE ELSE MISSILE_VELOCITY_SCALE
      rejected == [w EXCEPT !.sound = "invalidPlacement"]
  IN IF w.playerEnergy[p] < FIRE_ENERGY_COST THEN rejected
     ELSE IF sp.ammo <= 0 THEN rejected
     ELSE [w EXCEPT
             !.projectiles = Append(@, newProjectile(id, sp, drag[1] * scale, drag[2] * scale)),
             !.playerEnergy[p] = @ - FIRE_ENERGY_COST,
             !.shotLog = Append(@, Shot(id, sp.owner, p, p, w.playerEnergy[p], FIRE_ENERGY_COST,
                                        sp.ammo)),
             !.sound = IF sp.name = "Laser Turret" THEN "laser" ELSE "missileFire"]

\* the fire branch of the mouseup handler: launchSprite is a weapon
fireTurret(w, id, drag) ==
  LET p == w.currentPlayer
      sp == w.sprites[id]
      scale == IF sp.name = "Laser Turret" THEN LASER_VELOCITY_SCALE ELSE MISSILE_VELOCITY_SCALE
      rejected == [w EXCEPT !.sound = "invalidPlacement"]
  IN IF w.playerEnergy[p] < FIRE_ENERGY_COST THEN rejected
     ELSE IF sp.ammo <= 0 THEN rejected
     ELSE [w EXCEPT
             !.projectiles = Append(@, newProjectile(id, sp, drag[1] * scale, drag[2] * scale)),
             !.sprites[id].ammo = @ - 1,
             !.playerEnergy[p] = @ - FIRE_ENERGY_COST,
             !.shotLog = Append(@, Shot(id, sp.owner, p, p, w.playerEnergy[p], FIRE_ENERGY_COST,
                                        sp.ammo)),
             !.sound = IF sp.name = "Laser Turret" THEN "laser" ELSE "missileFire"]

\* the launch branch of the mouseup handler: launchSprite is a movable piece
launchPiece(w, id, drag) ==
  [w EXCEPT !.sprites[id].vx = drag[1] * MISSILE_VELOCITY_SCALE,
            !.sprites[id].vy = drag[2] * MISSILE_VELOCITY_SCALE]

\* -------------------------------------------------------------- deletion
REFUND_BASIS_TURRET == 200
REFUND_BASIS_LASER == 300
REFUND_BASIS_MINE == 150
REFUND_BASIS_SOLAR == 100

refundOf(name) ==
  CASE name = "Turret" -> REFUND_BASIS_TURRET \div 4
    [] name = "Laser Turret" -> REFUND_BASIS_LASER \div 4
    [] name = "Mine" -> REFUND_BASIS_MINE \div 4
    [] name = "Solar Panel" -> REFUND_BASIS_SOLAR \div 4
    [] OTHER -> 0

\* the cells that reference the sprite, in the scan order of the handler
\* (row by row); the first one is where the handler removes the sprite
cellIndex(c) == c[2] * GRID_WIDTH + c[1]
firstCellOf(g, id) ==
  CHOOSE c \in Cells :
    /\ g[c].sprite = id
    /\ \A d \in Cells : g[d].sprite = id => cellIndex(c) <= cellIndex(d)

\* the delete branch of the mouseup handler, for the highlighted building
deleteBuilding(w, id, bonus) ==
  IF id \notin OnGrid(w.grid) THEN w
  ELSE
    LET p == w.currentPlayer
        sp == w.sprites[id]
        c == firstCellOf(w.grid, id)
        w1 == IF sp.name = "Mine"
              THEN [w EXCEPT !.playerMineCount[p] = @ - 1]
              ELSE IF sp.name = "Solar Panel"
              THEN LET m == w.playerMaxEnergy[p] - SOLAR_ENERGY_BONUS IN
                   [w EXCEPT !.playerSolarCount[p] = @ - 1,
                             !.playerMaxEnergy[p] = m,
                             !.playerEnergy[p] = Min(@, m)]
              ELSE w
        w2 == removeSprite(w1, c[1], c[2], bonus)
    IN [w2 EXCEPT !.playerOre[p] = @ + refundOf(sp.name), !.sound = "explosion"]

\* ------------------------------------------------------------------ moves
\* moveSprite(fromX, fromY, toX, toY) for a source cell inside the grid: the
\* grid and sprites it leaves, whether it returned true, and whether it threw.
\* The source footprint is laid around the source cell and written without a
\* bounds test: this.grid[y][x] of a cell outside the grid is undefined, the
\* assignment to it throws and the cells listed before it stay vacated.
moveSprite(g, ss, from, to) ==
  LET id == g[from].sprite IN
  IF id = NoSprite THEN [ok |-> FALSE, threw |-> FALSE, grid |-> g, sprites |-> ss]
  ELSE
    LET k == ss[id].kind
        sourceCells == getCellsInRadius(from[1], from[2], RadiusOf(k), ShapeOf(k))
        outside == {c \in sourceCells : ~InBounds(c[1], c[2])}
    IN IF outside # {}
       THEN LET first == CHOOSE c \in outside : \A d \in outside : c = d \/ listedBefore(c, d)
                done == {c \in sourceCells : listedBefore(c, first)}
            IN [ok |-> FALSE, threw |-> TRUE,
                grid |-> [c \in Cells |->
                            IF c \in done THEN [g[c] EXCEPT !.occupied = FALSE] ELSE g[c]],
                sprites |-> ss]
       ELSE
         LET vacated == [c \in Cells |->
                           IF c \in sourceCells THEN [g[c] EXCEPT !.occupied = FALSE] ELSE g[c]]
             canPlace == canPlaceInRadius(vacated, to[1], to[2], RadiusOf(k), ShapeOf(k))
             restored == [c \in Cells |->
                            IF c \in sourceCells THEN [g[c] EXCEPT !.occupied = TRUE] ELSE g[c]]
         IN IF ~canPlace
            THEN [ok |-> FALSE, threw |-> FALSE, grid |-> restored, sprites |-> ss]
            ELSE
              LET cleared == [c \in Cells |-> IF c \in sourceCells THEN EmptyCell ELSE g[c]]
                  destCells == getCellsInRadius(to[1], to[2], RadiusOf(k), ShapeOf(k))
                  w == gridToWorld(to[1], to[2])
              IN [ok |-> TRUE, threw |-> FALSE,
                  grid |-> [c \in Cells |->
                              IF c \in destCells
                              THEN [occupied |-> TRUE, centerX |-> to[1], centerY |-> to[2],
                                    sprite |-> IF c = to THEN id ELSE cleared[c].sprite]
                              ELSE cleared[c]],
                  sprites |-> [ss EXCEPT ![id].x = w[1], ![id].y = w[2]]]

\* a call of the public method moveSprite for the sprite that the cell `from`
\* references
MoveSprite(from, to) ==
  /\ grid[from].sprite # NoSprite
  /\ LET r == moveSprite(grid, sprites, from, to)
     IN /\ grid' = r.grid
        /\ sprites' = r.sprites
  /\ sound' = "none"
  /\ shotLog' = <<>>
  /\ UNCHANGED <<projectiles, match, econ, bases, gravity, search, aimer, gameStarted, isAIMode, aiThinkingDelay,
                 ui, turns>>

\* ------------------------------------------------------- pointer handlers
\* a pointer position that screenToGrid maps outside the grid
Outside == <<-1, -1>>

\* room for one more sprite identity
HasRoom(ss) == NumSprites(ss) < NumWorld + MaxSprites

\* toolbar item "pointerdown": pick up a piece to drag onto the grid (the
\* main menu covers the toolbar and the buttons until startGame)
ToolbarDown(texture) ==
  /\ gameStarted
  /\ ~mouseDown
  /\ mouseDown' = TRUE
  /\ isDraggingFromToolbar' = TRUE
  /\ selectedTexture' = texture
  /\ sound' = "pickup"
  /\ shotLog' = <<>>
  /\ UNCHANGED <<grid, sprites, projectiles, match, econ, bases, gravity, search, aimer, gameStarted, isAIMode,
                 aiThinkingDelay, isLaunching, launchSprite, isDraggingDeleteButton,
                 highlightedBuildingForDelete, turns>>

\* trash can "pointerdown": start dragging the delete button
TrashDown ==
  /\ gameStarted
  /\ ~mouseDown
  /\ mouseDown' = TRUE
  /\ isDraggingDeleteButton' = TRUE
  /\ sound' = "none"
  /\ shotLog' = <<>>
  /\ UNCHANGED <<grid, sprites, projectiles, match, econ, bases, gravity, search, aimer, gameStarted, isAIMode,
                 aiThinkingDelay, isLaunching, launchSprite, isDraggingFromToolbar,
                 selectedTexture, highlightedBuildingForDelete, turns>>

\* canvas "mousedown" over the position c
MouseDown(c) ==
  /\ gameStarted
  /\ ~mouseDown
  /\ mouseDown' = TRUE
  /\ shotLog' = <<>>
  /\ LET id == IF c \in Cells /\ grid[c].occupied THEN spriteAt(grid, c) ELSE NoSprite
         weapon == id # NoSprite /\ TypeOf(sprites[id].kind) = "Weapon"
         enemy == weapon /\ sprites[id].owner # currentPlayer
         launch == /\ ~isDraggingFromToolbar
                   /\ id # NoSprite
                   /\ IF weapon THEN ~enemy ELSE ~ImmutableOf(sprites[id].kind)
     IN /\ sound' = IF ~isDraggingFromToolbar /\ enemy THEN "invalidPlacement" ELSE "none"
        /\ isLaunching' = IF launch THEN TRUE ELSE isLaunching
        /\ launchSprite' = IF launch THEN id ELSE launchSprite
  /\ UNCHANGED <<grid, sprites, projectiles, match, econ, bases, gravity, search, aimer, gameStarted, isAIMode,
                 aiThinkingDelay, isDraggingFromToolbar, selectedTexture,
                 isDraggingDeleteButton, highlightedBuildingForDelete, turns>>

\* canvas "mousemove" over the position c while the delete button is dragged
MouseMove(c) ==
  /\ gameStarted
  /\ isDraggingDeleteButton
  /\ LET id == IF c \in Cells THEN spriteAt(grid, c) ELSE NoSprite
         isDeletableBuilding ==
           /\ id # NoSprite
           /\ sprites[id].owner = currentPlayer
           /\ TypeOf(sprites[id].kind) \in {"Weapon", "Resource"}
     IN highlightedBuildingForDelete' = IF isDeletableBuilding THEN id ELSE NoSprite
  /\ sound' = "none"
  /\ shotLog' = <<>>
  /\ UNCHANGED <<grid, sprites, projectiles, match, econ, bases, gravity, search, aimer, gameStarted, isAIMode,
                 aiThinkingDelay, mouseDown, isLaunching, launchSprite,
                 isDraggingFromToolbar, selectedTexture, isDraggingDeleteButton, turns>>

\* what the "mouseup" handler does to the simulation state when the match is
\* not over: release at position c, with the drag vector of the gesture
mouseupWorld(w, c, drag) ==
  IF isLaunching /\ launchSprite # NoSprite
  THEN IF TypeOf(w.sprites[launchSprite].kind) = "Weapon"
       THEN fireTurret(w, launchSprite, drag)
       ELSE launchPiece(w, launchSprite, drag)
  ELSE IF isDraggingFromToolbar /\ selectedTexture # "none"
  THEN IF c \in Cells
       THEN IF selectedTexture = "bunny"
            THEN placeBunny(w, c[1], c[2])
            ELSE placeBuilding(w, selectedTexture, c[1], c[2])
       ELSE w
  ELSE IF isDraggingDeleteButton /\ highlightedBuildingForDelete # NoSprite
  THEN deleteBuilding(w, highlightedBuildingForDelete, 0)
  ELSE w

\* canvas "mouseup" at position c
MouseUp(c, drag) ==
  /\ gameStarted
  /\ mouseDown
  /\ mouseDown' = FALSE
  /\ IF gameOver
     THEN /\ isLaunching' = FALSE
          /\ launchSprite' = NoSprite
          /\ isDraggingFromToolbar' = FALSE
          /\ selectedTexture' = "none"
          /\ sound' = "none"
          /\ shotLog' = <<>>
          /\ UNCHANGED <<grid, sprites, projectiles, match, econ, aiThinkingDelay, turns,
                         isDraggingDeleteButton, highlightedBuildingForDelete>>
     ELSE /\ (isDraggingFromToolbar /\ ~isLaunching) => HasRoom(sprites)
          /\ \E w \in {mouseupWorld(Cur, c, drag)} : Commit(w)
          /\ Len(projectiles') <= MaxProjectiles
          /\ isLaunching' = FALSE
          /\ launchSprite' = IF isLaunching THEN NoSprite ELSE launchSprite
          /\ isDraggingFromToolbar' = FALSE
          /\ selectedTexture' = IF isLaunching THEN selectedTexture ELSE "none"
          /\ isDraggingDeleteButton' =
               IF isLaunching \/ isDraggingFromToolbar THEN isDraggingDeleteButton ELSE FALSE
          /\ highlightedBuildingForDelete' =
               IF isLaunching \/ isDraggingFromToolbar THEN highlightedBuildingForDelete
               ELSE NoSprite
  /\ aimer' = NoAim
  /\ UNCHANGED <<bases, gravity, search, gameStarted, isAIMode>>

\* "End Turn" button
EndTurnClick ==
  /\ gameStarted
  /\ ~mouseDown
  /\ turns < MaxTurns
  /\ \E w \in {endTurn(Cur)} : Commit(w)
  /\ UNCHANGED <<bases, gravity, search, aimer, gameStarted, isAIMode, ui>>

\* ------------------------------------------------------ scripted opponent
AI_MINE_TARGET == 2
AI_SOLAR_TARGET == 1
AI_SHIELD_ORE == 300
AI_TURRET_ORE == 100
AI_FIRE_ENERGY == 25
AI_LASER_SHOT_COST == 25
AI_MISSILE_SHOT_COST == 50

\* the random candidate cell is floor(base + dist * (cos a, sin a)).  For
\* aiBuildNearBase dist lies between searchRadius (40) and shieldRadius + 5,
\* that is 0.8 to 1.1 shield radii at the engine's shield radius of 50; for
\* aiBuildOffensiveStructure dist is 0.5 to 0.9 shield radii.  In tenths:
AI_NEAR_LOW == 8
AI_NEAR_HIGH == 11
AI_OFFENSIVE_LOW == 5
AI_OFFENSIVE_HIGH == 9

\* least and greatest |t| over the unit interval [o, o + 1) that floors to o
minAbs(o) == IF o >= 0 THEN o ELSE IF o + 1 <= 0 THEN -(o + 1) ELSE 0
maxAbs(o) == IF o >= 0 THEN o + 1 ELSE -o

\* the cell c can be drawn at a distance between low/10 and high/10 shield
\* radii from the base cell b
canDraw(c, b, low, high) ==
  LET ox == c[1] - b[1]
      oy == c[2] - b[2]
      near == minAbs(ox) * minAbs(ox) + minAbs(oy) * minAbs(oy)
      far == maxAbs(ox) * maxAbs(ox) + maxAbs(oy) * maxAbs(oy)
  IN /\ 100 * near <= high * high * shieldRadius * shieldRadius
     /\ 100 * far > low * low * shieldRadius * shieldRadius

\* the AI places the sprite of a toolbar item at cell c and pays for it
aiPlace(w, texture, c, energyCost) ==
  LET kind == SpriteKindOf(texture)
      id == NumSprites(w.sprites) + 1
      ss == [w.sprites EXCEPT ![id] = [createSprite(kind, NameOf(kind)) EXCEPT !.owner = 2]]
      pl == placeSprite(w.grid, ss, c[1], c[2], id)
      w1 == [w EXCEPT !.grid = pl.grid, !.sprites = pl.sprites,
                      !.playerOre[2] = @ - CostOf(texture),
                      !.playerEnergy[2] = @ - energyCost,
                      !.sound = "placeBuilding"]
  IN IF kind = "mine" THEN [w1 EXCEPT !.playerMineCount[2] = @ + 1]
     ELSE IF kind = "solarPanel"
     THEN [w1 EXCEPT !.playerSolarCount[2] = @ + 1,
                     !.playerMaxEnergy[2] = @ + SOLAR_ENERGY_BONUS]
     ELSE w1

\* aiBuildNearBase: the states after a successful attempt (none of the 50
\* attempts need succeed)
aiBuildNearBase(w, texture) ==
  LET kind == SpriteKindOf(texture) IN
  IF ~HasRoom(w.sprites) THEN {}
  ELSE {aiPlace(w, texture, c, 0) :
          c \in {d \in Cells :
                   /\ canDraw(d, BaseCell2, AI_NEAR_LOW, AI_NEAR_HIGH)
                   /\ canPlaceInRadius(w.grid, d[1], d[2], RadiusOf(kind), ShapeOf(kind))
                   /\ (texture = "domeShield" \/ isPositionWithinShield(d[1], d[2], 2))
                   /\ w.playerOre[2] >= CostOf(texture)}}

\* the cells at which an attempt of aiBuildOffensiveStructure succeeds
offensiveSites(w, texture) ==
  {d \in Cells :
     /\ canDraw(d, BaseCell2, AI_OFFENSIVE_LOW, AI_OFFENSIVE_HIGH)
     /\ DistSq(d[1], d[2], BaseCell2[1], BaseCell2[2]) <= shieldRadius * shieldRadius
     /\ canPlaceInRadius(w.grid, d[1], d[2], 0, "square")
     /\ w.playerOre[2] >= CostOf(texture)
     /\ w.playerEnergy[2] >= ENERGY_COST_TURRET}

\* aiBuildOffensiveStructure: the states after a successful attempt
aiBuildOffensiveStructure(w) ==
  IF ~HasRoom(w.sprites) THEN {}
  ELSE UNION {{aiPlace(w, texture, c, ENERGY_COST_TURRET) : c \in offensiveSites(w, texture)} :
              texture \in {"turret", "laserTurret"}}

aiHasBuildingType(w, name) ==
  \E id \in OnGrid(w.grid) : w.sprites[id].owner = 2 /\ w.sprites[id].name = name

\* the velocities that the trajectory search and its random inaccuracy yield
AIShotVelocities == {<<-1, 0>>, <<0, -1>>}

aiShoot(w, id, v) ==
  LET sp == w.sprites[id]
      cost == IF sp.name = "Laser Turret" THEN AI_LASER_SHOT_COST ELSE AI_MISSILE_SHOT_COST
  IN [w EXCEPT
        !.projectiles = Append(@, newProjectile(id, sp, v[1], v[2])),
        !.sprites[id].ammo = @ - 1,
        !.playerEnergy[2] = @ - cost,
        !.shotLog = Append(@, Shot(id, sp.owner, w.currentPlayer, 2, w.playerEnergy[2], cost,
                                   sp.ammo)),
        !.sound = IF sp.name = "Laser Turret" THEN "laser" ELSE "missileFire"]

RECURSIVE aiShots(_, _, _)
aiShots(w, turrets, n) ==
  LET available == {t \in turrets : w.sprites[t].ammo > 0} IN
  IF n <= 0 \/ available = {} THEN {w}
  ELSE UNION {aiShots(aiShoot(w, t, v), turrets, n - 1) :
                t \in available, v \in AIShotVelocities}

RECURSIVE SumAmmo(_, _, _)
SumAmmo(w, ids, acc) ==
  IF ids = {} THEN acc
  ELSE LET t == CHOOSE t \in ids : TRUE IN
       SumAmmo(w, ids \ {t}, acc + w.sprites[t].ammo * RefCount(w.grid, t))

\* aiFireTurrets: the states after the volley
aiFireTurrets(w) ==
  LET turrets == {id \in OnGrid(w.grid) :
                    /\ w.sprites[id].owner = 2
                    /\ w.sprites[id].name \in {"Turret", "Laser Turret"}
                    /\ w.sprites[id].ammo > 0}
      totalAmmo == SumAmmo(w, turrets, 0)
      shotsToFire == Max(1, (totalAmmo * 4) \div 10)
      maxShotsFromEnergy == w.playerEnergy[2] \div AI_FIRE_ENERGY
      actualShots == Min(Min(shotsToFire, maxShotsFromEnergy), totalAmmo)
  IN IF turrets = {} \/ totalAmmo = 0 THEN {w}
     ELSE aiShots(w, turrets, actualShots)

\* executeAITurn without its first line
executeAITurnUnguarded(w) ==
  IF player2Base = NoSprite \/ player1Base = NoSprite THEN {endTurn(w)}
  ELSE
    LET myOre == w.playerOre[2]
        myEnergy == w.playerEnergy[2]
        mines == IF w.playerMineCount[2] < AI_MINE_TARGET /\ myOre >= ORE_COST_MINE
                 THEN aiBuildNearBase(w, "mine") ELSE {}
        solars == IF w.playerSolarCount[2] < AI_SOLAR_TARGET /\ myOre >= ORE_COST_SOLAR
                  THEN aiBuildNearBase(w, "solarPanel") ELSE {}
        shields == IF ~aiHasBuildingType(w, "Dome Shield") /\ myOre >= AI_SHIELD_ORE
                   THEN aiBuildNearBase(w, "domeShield") ELSE {}
        turrets == IF myOre >= AI_TURRET_ORE /\ myEnergy >= ENERGY_COST_TURRET
                   THEN aiBuildOffensiveStructure(w) ELSE {}
        fired == IF myEnergy >= AI_FIRE_ENERGY THEN aiFireTurrets(w) ELSE {w}
    IN {[b EXCEPT !.aiThinkingDelay = AI_ACTION_DELAY] :
          b \in mines \cup solars \cup shields \cup turrets}
       \cup {endTurn(f) : f \in fired}

\* executeAITurn that starts no countdown after a successful build
executeAITurnNoDelay(w) ==
  IF w.currentPlayer # 2 \/ ~isAIMode \/ w.gameOver THEN {w}
  ELSE IF player2Base = NoSprite \/ player1Base = NoSprite THEN {endTurn(w)}
  ELSE
    LET myOre == w.playerOre[2]
        myEnergy == w.playerEnergy[2]
        mines == IF w.playerMineCount[2] < AI_MINE_TARGET /\ myOre >= ORE_COST_MINE
                 THEN aiBuildNearBase(w, "mine") ELSE {}
        solars == IF w.playerSolarCount[2] < AI_SOLAR_TARGET /\ myOre >= ORE_COST_SOLAR
                  THEN aiBuildNearBase(w, "solarPanel") ELSE {}
        shields == IF ~aiHasBuildingType(w, "Dome Shield") /\ myOre >= AI_SHIELD_ORE
                   THEN aiBuildNearBase(w, "domeShield") ELSE {}
        turrets == IF myOre >= AI_TURRET_ORE /\ myEnergy >= ENERGY_COST_TURRET
                   THEN aiBuildOffensiveStructure(w) ELSE {}
        fired == IF myEnergy >= AI_FIRE_ENERGY THEN aiFireTurrets(w) ELSE {w}
    IN mines \cup solars \cup shields \cup turrets \cup {endTurn(f) : f \in fired}

\* executeAITurn: the states it can leave
executeAITurn(w) ==
  IF w.currentPlayer # 2 \/ ~isAIMode \/ w.gameOver THEN {w}
  ELSE IF player2Base = NoSprite \/ player1Base = NoSprite THEN {endTurn(w)}
  ELSE
    LET myOre == w.playerOre[2]
        myEnergy == w.playerEnergy[2]
        mines == IF w.playerMineCount[2] < AI_MINE_TARGET /\ myOre >= ORE_COST_MINE
                 THEN aiBuildNearBase(w, "mine") ELSE {}
        solars == IF w.playerSolarCount[2] < AI_SOLAR_TARGET /\ myOre >= ORE_COST_SOLAR
                  THEN aiBuildNearBase(w, "solarPanel") ELSE {}
        shields == IF ~aiHasBuildingType(w, "Dome Shield") /\ myOre >= AI_SHIELD_ORE
                   THEN aiBuildNearBase(w, "domeShield") ELSE {}
        turrets == IF myOre >= AI_TURRET_ORE /\ myEnergy >= ENERGY_COST_TURRET
                   THEN aiBuildOffensiveStructure(w) ELSE {}
        fired == IF myEnergy >= AI_FIRE_ENERGY THEN aiFireTurrets(w) ELSE {w}
    IN {[b EXCEPT !.aiThinkingDelay = AI_ACTION_DELAY] :
          b \in mines \cup solars \cup shields \cup turrets}
       \cup {endTurn(f) : f \in fired}

\* ------------------------------------------------------------------ tick
\* applyPhysics along one axis with zero acceleration: the speed clamp
clampV(v) == IF Abs(v) > MAX_VELOCITY THEN Sign(v) * MAX_VELOCITY ELSE v

\* only BunnySprite.update integrates physics
Moves(kind) == kind = "bunny"

\* (!cell.centerX || (cell.centerX === x && cell.centerY === y))
isCenterCell(g, c) ==
  \/ g[c].centerX = Undef
  \/ g[c].centerX = 0
  \/ (g[c].centerX = c[1] /\ g[c].centerY = c[2])

\* clear the cells of a footprint that name `centre` as their centre
clearOwned(g, cells, centre) ==
  [c \in Cells |->
     IF c \in cells /\ g[c].centerX = centre[1] /\ g[c].centerY = centre[2]
     THEN EmptyCell ELSE g[c]]

\* the immutable centre cells whose sprite the position <<px, py>> is inside
collisionCells(w, px, py) ==
  {d \in Cells :
     /\ w.grid[d].sprite # NoSprite
     /\ ImmutableOf(w.sprites[w.grid[d].sprite].kind)
     /\ isCenterCell(w.grid, d)
     /\ LET t == w.sprites[w.grid[d].sprite]
            r == RadiusOf(t.kind) * TILE_SIZE
        IN DistSq(px, py, t.x, t.y) < r * r}

\* a moving sprite ran into the immutable sprite at cell d
collide(w, c, id, d) ==
  LET tid == w.grid[d].sprite
      t == w.sprites[tid]
      sp == w.sprites[id]
      hurt == t.name # "Black Hole"
      ss == IF hurt THEN [w.sprites EXCEPT ![tid].health = @ - BUNNY_HIT_DAMAGE] ELSE w.sprites
      destroyed == hurt /\ ss[tid].health <= 0
      g1 == IF destroyed
            THEN clearOwned(w.grid, getCellsInRadius(d[1], d[2], RadiusOf(t.kind), ShapeOf(t.kind)), d)
            ELSE w.grid
      w1 == [w EXCEPT !.sprites = ss, !.grid = g1, !.sound = "explosion"]
      w2 == IF destroyed
            THEN IF tid = player1Base THEN endGame(w1, "Player 2")
                 ELSE IF tid = player2Base THEN endGame(w1, "Player 1")
                 ELSE w1
            ELSE w1
  IN [w2 EXCEPT !.grid = clearOwned(@, getCellsInRadius(c[1], c[2], RadiusOf(sp.kind), ShapeOf(sp.kind)), c)]

\* a moving sprite that hit nothing: follow it on the grid
relocate(w, c, id, n) ==
  IF n = c THEN w
  ELSE
    LET sp == w.sprites[id]
        old == getCellsInRadius(c[1], c[2], RadiusOf(sp.kind), ShapeOf(sp.kind))
        new == IF InBounds(n[1], n[2])
               THEN getCellsInRadius(n[1], n[2], RadiusOf(sp.kind), ShapeOf(sp.kind))
               ELSE {}
        g1 == [e \in Cells |-> IF e \in old THEN EmptyCell ELSE w.grid[e]]
        g2 == [e \in Cells |->
                 IF e \in new
                 THEN [occupied |-> TRUE, centerX |-> n[1], centerY |-> n[2],
                       sprite |-> IF e = n THEN id ELSE g1[e].sprite]
                 ELSE g1[e]]
    IN [w EXCEPT !.grid = g2]

\* the body of the sprite loop for the cell c
updateCell(w, c) ==
  LET id == w.grid[c].sprite IN
  IF id = NoSprite \/ ~isCenterCell(w.grid, c) THEN w
  ELSE
    LET sp == w.sprites[id] IN
    IF sp.vx = 0 /\ sp.vy = 0 THEN w
    ELSE
      LET n == <<worldToGrid(sp.x), worldToGrid(sp.y)>>
          vx == IF Moves(sp.kind) THEN clampV(sp.vx) ELSE sp.vx
          vy == IF Moves(sp.kind) THEN clampV(sp.vy) ELSE sp.vy
          px == IF Moves(sp.kind) THEN sp.x + vx ELSE sp.x
          py == IF Moves(sp.kind) THEN sp.y + vy ELSE sp.y
          w1 == [w EXCEPT !.sprites[id] = [sp EXCEPT !.vx = vx, !.vy = vy, !.x = px, !.y = py]]
          hits == collisionCells(w1, px, py)
      IN IF hits # {}
         THEN collide(w1, c, id,
                      CHOOSE d \in hits : \A e \in hits : cellIndex(d) <= cellIndex(e))
         ELSE relocate(w1, c, id, n)

\* the cells at or after position idx of the row-by-row scan whose update
\* does something: centre cells of sprites with a velocity
pendingCells(w, idx) ==
  {c \in Cells :
     /\ cellIndex(c) >= idx
     /\ w.grid[c].sprite # NoSprite
     /\ isCenterCell(w.grid, c)
     /\ (w.sprites[w.grid[c].sprite].vx # 0 \/ w.sprites[w.grid[c].sprite].vy # 0)}

\* the sprite loop of tick(), from position idx of the scan on; the grid is
\* read as the loop left it, so a sprite that was moved ahead is met again
RECURSIVE tickSprites(_, _)
tickSprites(w, idx) ==
  LET pending == pendingCells(w, idx) IN
  IF pending = {} THEN w
  ELSE LET c == CHOOSE d \in pending : \A e \in pending : cellIndex(d) <= cellIndex(e)
       IN tickSprites(updateCell(w, c), cellIndex(c) + 1)

\* the sequence without its i-th element: projectiles.splice(i, 1)
splice(seq, i) == SubSeq(seq, 1, i - 1) \o SubSeq(seq, i + 1, Len(seq))

\* the projectile loop body without the black-hole branch: every sprite that
\* is hit takes the damage
updateProjectileHurtsAll(w, i, bonus) ==
  LET p == w.projectiles[i]
      vx == clampV(p.vx)
      vy == clampV(p.vy)
      q == [p EXCEPT !.vx = vx, !.vy = vy, !.x = p.x + vx, !.y = p.y + vy]
      n == <<worldToGrid(q.x), worldToGrid(q.y)>>
      flying == [w EXCEPT !.projectiles[i] = q]
      gone == [w EXCEPT !.projectiles = splice(@, i)]
  IN IF ~InBounds(n[1], n[2]) THEN gone
     ELSE
       LET newCell == w.grid[n]
           hit == newCell.sprite
       IN IF newCell.occupied /\ hit = p.firingTurret THEN flying
          ELSE IF newCell.occupied /\ hit # NoSprite
          THEN LET w1 == [gone EXCEPT !.sprites[hit].health = @ - p.damage,
                                      !.sound = "explosion"]
                   cx == IF newCell.centerX # Undef THEN newCell.centerX ELSE n[1]
                   cy == IF newCell.centerY # Undef THEN newCell.centerY ELSE n[2]
               IN IF w1.sprites[hit].health <= 0
                  THEN removeSprite(w1, cx, cy, bonus)
                  ELSE w1
          ELSE flying

\* a projectile loop that leaves a target standing after a lethal hit
updateProjectileKeepsWreck(w, i, bonus) ==
  LET p == w.projectiles[i]
      vx == clampV(p.vx)
      vy == clampV(p.vy)
      q == [p EXCEPT !.vx = vx, !.vy = vy, !.x = p.x + vx, !.y = p.y + vy]
      n == <<worldToGrid(q.x), worldToGrid(q.y)>>
      flying == [w EXCEPT !.projectiles[i] = q]
      gone == [w EXCEPT !.projectiles = splice(@, i)]
  IN IF ~InBounds(n[1], n[2]) THEN gone
     ELSE
       LET newCell == w.grid[n]
           hit == newCell.sprite
       IN IF newCell.occupied /\ hit = p.firingTurret THEN flying
          ELSE IF newCell.occupied /\ hit # NoSprite
          THEN IF w.sprites[hit].name = "Black Hole"
               THEN [gone EXCEPT !.sound = "explosion"]
               ELSE [gone EXCEPT !.sprites[hit].health = @ - p.damage,
                                 !.sound = "explosion"]
          ELSE flying

\* the body of the projectile loop for the i-th projectile
updateProjectile(w, i, bonus) ==
  LET p == w.projectiles[i]
      vx == clampV(p.vx)
      vy == clampV(p.vy)
      q == [p EXCEPT !.vx = vx, !.vy = vy, !.x = p.x + vx, !.y = p.y + vy]
      n == <<worldToGrid(q.x), worldToGrid(q.y)>>
      flying == [w EXCEPT !.projectiles[i] = q]
      gone == [w EXCEPT !.projectiles = splice(@, i)]
  IN IF ~InBounds(n[1], n[2]) THEN gone
     ELSE
       LET newCell == w.grid[n]
           hit == newCell.sprite
       IN IF newCell.occupied /\ hit = p.firingTurret THEN flying
          ELSE IF newCell.occupied /\ hit # NoSprite
          THEN IF w.sprites[hit].name = "Black Hole"
               THEN [gone EXCEPT !.sound = "explosion"]
               ELSE
                 LET w1 == [gone EXCEPT !.sprites[hit].health = @ - p.damage,
                                        !.sound = "explosion"]
                     cx == IF newCell.centerX # Undef THEN newCell.centerX ELSE n[1]
                     cy == IF newCell.centerY # Undef THEN newCell.centerY ELSE n[2]
                 IN IF w1.sprites[hit].health <= 0
                    THEN removeSprite(w1, cx, cy, bonus)
                    ELSE w1
          ELSE flying

\* for (let i = this.projectiles.length - 1; i >= 0; i--)
RECURSIVE tickProjectiles(_, _, _)
tickProjectiles(w, i, bonus) ==
  IF i < 1 THEN w
  ELSE tickProjectiles(updateProjectile(w, i, bonus), i - 1, bonus)

\* the AI countdown at the head of tick()
aiCountdown(w) ==
  IF w.aiThinkingDelay > 0
  THEN LET w1 == [w EXCEPT !.aiThinkingDelay = @ - 1] IN
       IF w1.aiThinkingDelay = 0 THEN executeAITurn(w1) ELSE {w1}
  ELSE {w}

\* one frame
Tick(bonus) ==
  /\ \E w1 \in aiCountdown(Cur) :
       \E w2 \in {tickSprites(w1, 0)} :
         \E w3 \in {tickProjectiles(w2, Len(w2.projectiles), bonus)} :
           /\ w3.turns <= MaxTurns
           /\ Len(w1.projectiles) <= MaxProjectiles
           /\ Commit(w3)
  /\ UNCHANGED <<bases, gravity, search, aimer, gameStarted, isAIMode, ui>>

\* the pointer and button events, for the toolbar items, the pointer
\* positions and the drags (press position minus release position) considered
Input(textures, positions, drags) ==
  \/ \E t \in textures : ToolbarDown(t)
  \/ TrashDown
  \/ \E c \in positions : MouseDown(c)
  \/ \E c \in positions : MouseMove(c)
  \/ \E c \in positions, d \in drags : MouseUp(c, d)
  \/ EndTurnClick

\* cells next to the bases: <<3, 3>> is a building site of player 1, <<9, 3>>
\* one of player 2, <<2, 4>> lies in player 1's shield at the grid's edge
PointerCells == {<<3, 3>>, <<2, 4>>, <<9, 3>>}
Positions == PointerCells \cup {Outside}

\* a two-player match played with launched pieces and missile turrets
Next ==
  \/ StartGame(FALSE)
  \/ Input({"bunny", "turret"}, Positions, {<<0, -1>>})
  \/ \E b \in OreBonuses : Tick(b)

Spec == Init /\ [][Next]_vars

\* a two-player match played with the buildings and straight shots
NextEconomy ==
  \/ StartGame(FALSE)
  \/ Input({"turret", "mine", "solarPanel"}, Positions, {<<1, 0>>})
  \/ \E b \in OreBonuses : Tick(b)

SpecEconomy == Init /\ [][NextEconomy]_vars

\* a match against the scripted opponent
NextAI ==
  \/ StartGame(TRUE)
  \/ Input({"turret"}, {<<3, 3>>, <<10, 3>>, Outside}, {<<0, -1>>})
  \/ \E b \in OreBonuses : Tick(b)

SpecAI == Init /\ [][NextAI]_vars

\* a match against the scripted opponent with launched pieces: <<2, 4>> is
\* where a piece launched upwards runs into player 1's base
NextVersusAI ==
  \/ StartGame(TRUE)
  \/ Input({"bunny", "turret"}, {<<2, 4>>, <<3, 3>>, Outside}, {<<0, -1>>})
  \/ \E b \in OreBonuses : Tick(b)

SpecVersusAI == Init /\ [][NextVersusAI]_vars

\* the match against the scripted opponent under the ticker, which calls
\* tick() in every frame for as long as the page is open
SpecAITurn ==
  Init /\ [][NextVersusAI]_vars /\ WF_vars(\E b \in OreBonuses : Tick(b))

\* a two-player match with missile turrets in which a caller also moves
\* sprites: from a centre cell, from cells at the rim of a footprint and from
\* a cell at the grid's edge, to a free site, an occupied one and one outside
MoveSources == {<<2, 2>>, <<3, 2>>, <<3, 3>>, <<6, 0>>}
MoveTargets == {<<5, 3>>, <<9, 1>>, Outside}

NextMove ==
  \/ StartGame(FALSE)
  \/ Input({"turret"}, {<<3, 3>>, Outside}, {<<0, -1>>})
  \/ \E b \in OreBonuses : Tick(b)
  \/ \E from \in MoveSources, to \in MoveTargets : MoveSprite(from, to)

SpecMove == Init /\ [][NextMove]_vars

\* a two-player match in a world with a black hole, which lies in the row of
\* player 2's building site: pieces and missiles fly left into it, and the
\* pointer also presses, drops and drags the trash can on its rim cell
NextBlackHole ==
  \/ StartGame(FALSE)
  \/ Input({"bunny", "turret"}, {<<9, 3>>, <<6, 3>>, Outside}, {<<-1, 0>>})
  \/ \E b \in OreBonuses : Tick(b)

SpecBlackHole == InitBlackHole /\ [][NextBlackHole]_vars

\* a two-player match with missile turrets under a ticker that never stops:
\* a frame that changes something is eventually run.  The turret site
\* <<4, 2>> lies in player 1's shield where the planet's field has fallen to
\* zero, in the row of the asteroid's rim.  A press and release without moving
\* the pointer is the drag <<0, 0>>
NextFlight ==
  \/ StartGame(FALSE)
  \/ Input({"turret"}, {<<4, 2>>, Outside}, {<<0, 0>>, <<1, 0>>})
  \/ \E b \in OreBonuses : Tick(b)

SpecFlight == Init /\ [][NextFlight]_vars /\ WF_vars(\E b \in OreBonuses : Tick(b))

\* ------------------------------------------------------------ integrators
\* The arithmetic of the integrators on vectors, in fixed point: SubPx units
\* to the pixel, every operation rounded to the nearest unit as the engine's
\* number type rounds to the nearest representable value.
SubPx == 10
MAX_VELOCITY_PX == 8
MAX_ACCELERATION == 20

\* GameSprite.applyPhysics without the speed clamp
applyPhysicsUnclamped(p, delta, ax, ay) ==
  LET accelMag == magnitude(ax, ay)
      cap == MAX_ACCELERATION * SubPx
      ax1 == IF accelMag > cap THEN roundDiv(ax * cap, accelMag) ELSE ax
      ay1 == IF accelMag > cap THEN roundDiv(ay * cap, accelMag) ELSE ay
      vx1 == p.vx + ax1 * delta
      vy1 == p.vy + ay1 * delta
  IN [p EXCEPT !.vx = vx1, !.vy = vy1, !.x = p.x + vx1 * delta, !.y = p.y + vy1 * delta]

\* GameSprite.applyPhysics: cap the acceleration, add it, clamp the speed
\* (scale = MAX_VELOCITY / speed; vx *= scale), move
applyPhysics(p, delta, ax, ay) ==
  LET accelMag == magnitude(ax, ay)
      cap == MAX_ACCELERATION * SubPx
      ax1 == IF accelMag > cap THEN roundDiv(ax * cap, accelMag) ELSE ax
      ay1 == IF accelMag > cap THEN roundDiv(ay * cap, accelMag) ELSE ay
      vx1 == p.vx + ax1 * delta
      vy1 == p.vy + ay1 * delta
      speed == magnitude(vx1, vy1)
      top == MAX_VELOCITY_PX * SubPx
      vx2 == IF speed > top THEN roundDiv(vx1 * top, speed) ELSE vx1
      vy2 == IF speed > top THEN roundDiv(vy1 * top, speed) ELSE vy1
  IN [p EXCEPT !.vx = vx2, !.vy = vy2, !.x = p.x + vx2 * delta, !.y = p.y + vy2 * delta]

\* one pass of the loop of drawTrajectory and of
\* simulateTrajectoryWithCollision (deltaTime = 1.0): add the gravity, clamp
\* the speed (vx = (vx / speed) * MAX_VELOCITY), move
trajectoryStep(p, ax, ay) ==
  LET vx1 == p.vx + ax
      vy1 == p.vy + ay
      speed == magnitude(vx1, vy1)
      top == MAX_VELOCITY_PX * SubPx
      vx2 == IF speed > top THEN roundDiv(vx1 * top, speed) ELSE vx1
      vy2 == IF speed > top THEN roundDiv(vy1 * top, speed) ELSE vy1
  IN [p EXCEPT !.vx = vx2, !.vy = vy2, !.x = p.x + vx2, !.y = p.y + vy2]

\* the velocities a shot is released with (drag times 0.1, of any length),
\* the accelerations sampled from the gravity cache (sums of overlapping
\* fields, up to far above the acceleration cap), the ticker's deltaTime, and
\* the distance from the start up to which a flight is followed
LaunchVelocities ==
  {<<0, 0>>, <<80, 0>>, <<0, -81>>, <<100, 100>>, <<-113, 97>>, <<300, -400>>, <<57, 57>>}
Accelerations == {<<0, 0>>, <<-10, 10>>, <<300, 400>>}
Deltas == {1, 2}
FlightRange == 16

InitPhysics ==
  /\ grid = generateWorld.grid
  /\ sprites = generateWorld.sprites
  /\ player1Base = generateWorld.base1
  /\ player2Base = generateWorld.base2
  /\ gravity = generateGravity
  /\ search = NoSearch
  /\ aimer = NoAim
  /\ projectiles \in {<<[x |-> 0, y |-> 0, vx |-> v[1], vy |-> v[2],
                         firingTurret |-> NoSprite, damage |-> TURRET_DAMAGE]>> :
                        v \in LaunchVelocities}
  /\ gameOver = FALSE
  /\ winner = "none"
  /\ currentPlayer = 1
  /\ playerOre = [p \in Players |-> START_ORE]
  /\ playerEnergy = [p \in Players |-> START_ENERGY]
  /\ playerMaxEnergy = [p \in Players |-> START_ENERGY]
  /\ playerMineCount = [p \in Players |-> 0]
  /\ playerSolarCount = [p \in Players |-> 0]
  /\ gameStarted = TRUE
  /\ isAIMode = FALSE
  /\ aiThinkingDelay = 0
  /\ mouseDown = FALSE
  /\ isLaunching = FALSE
  /\ launchSprite = NoSprite
  /\ isDraggingFromToolbar = FALSE
  /\ selectedTexture = "none"
  /\ isDraggingDeleteButton = FALSE
  /\ highlightedBuildingForDelete = NoSprite
  /\ sound = "none"
  /\ shotLog = <<>>
  /\ turns = 0

\* the variables that an integration step leaves alone
UnchangedByPhysics ==
  UNCHANGED <<grid, sprites, gameOver, winner, currentPlayer, playerOre, playerEnergy,
              playerMaxEnergy, playerMineCount, playerSolarCount, player1Base, player2Base,
              gameStarted, isAIMode, aiThinkingDelay, mouseDown, isLaunching, launchSprite,
              isDraggingFromToolbar, selectedTexture, isDraggingDeleteButton,
              highlightedBuildingForDelete, sound, shotLog, turns, gravity,
              search, aimer>>

InRange(p) == Abs(p.x) <= FlightRange * SubPx /\ Abs(p.y) <= FlightRange * SubPx

\* projectile.update(time.deltaTime, ax, ay) in the projectile loop
PhysicsStep(delta, a) ==
  /\ InRange(projectiles[1])
  /\ projectiles' = <<applyPhysics(projectiles[1], delta, a[1], a[2])>>
  /\ UnchangedByPhysics

\* one pass of a trajectory preview on its local velocity and position
TrajectoryStep(a) ==
  /\ InRange(projectiles[1])
  /\ projectiles' = <<trajectoryStep(projectiles[1], a[1], a[2])>>
  /\ UnchangedByPhysics

NextPhysics ==
  \/ \E delta \in Deltas, a \in Accelerations : PhysicsStep(delta, a)
  \/ \E a \in Accelerations : TrajectoryStep(a)

SpecPhysics == InitPhysics /\ [][NextPhysics]_vars

\* ---------------------------------------------------- gravity fields alone
\* applyGravityField on its own: the cache starts empty or as generateWorld
\* left it, and fields are applied in any order.  The sources are the planets,
\* the asteroid and the black-hole site of the generated world, a strong field
\* at the corner of the grid, whose square reaches outside the grid, and a
\* field of radius 1, which ends where its first cells are.  A cache is
\* followed while no component exceeds GravityRange
GravitySources ==
  {<<BaseCell1[1], BaseCell1[2], PLANET_GRAVITY_RADIUS, PLANET_GRAVITY_STRENGTH>>,
   <<BaseCell2[1], BaseCell2[2], PLANET_GRAVITY_RADIUS, PLANET_GRAVITY_STRENGTH>>,
   <<AsteroidCell[1], AsteroidCell[2], ASTEROID_GRAVITY_RADIUS, ASTEROID_GRAVITY_STRENGTH>>,
   <<BlackHoleCell[1], BlackHoleCell[2], BLACK_HOLE_GRAVITY_RADIUS, BLACK_HOLE_GRAVITY_STRENGTH>>,
   <<0, 0, 3, BLACK_HOLE_GRAVITY_STRENGTH>>,
   <<GRID_WIDTH - 1, GRID_HEIGHT - 1, PLACED_ASTEROID_GRAVITY_RADIUS,
     PLACED_ASTEROID_GRAVITY_STRENGTH>>}
GravityRange == 500

InitGravity ==
  /\ grid = generateWorld.grid
  /\ sprites = generateWorld.sprites
  /\ player1Base = generateWorld.base1
  /\ player2Base = generateWorld.base2
  /\ gravity \in {NoGravity, generateGravity}
  /\ search = NoSearch
  /\ aimer = NoAim
  /\ projectiles = <<>>
  /\ gameOver = FALSE
  /\ winner = "none"
  /\ currentPlayer = 1
  /\ playerOre = [p \in Players |-> START_ORE]
  /\ playerEnergy = [p \in Players |-> START_ENERGY]
  /\ playerMaxEnergy = [p \in Players |-> START_ENERGY]
  /\ playerMineCount = [p \in Players |-> 0]
  /\ playerSolarCount = [p \in Players |-> 0]
  /\ gameStarted = FALSE
  /\ isAIMode = FALSE
  /\ aiThinkingDelay = 0
  /\ mouseDown = FALSE
  /\ isLaunching = FALSE
  /\ launchSprite = NoSprite
  /\ isDraggingFromToolbar = FALSE
  /\ selectedTexture = "none"
  /\ isDraggingDeleteButton = FALSE
  /\ highlightedBuildingForDelete = NoSprite
  /\ sound = "none"
  /\ shotLog = <<>>
  /\ turns = 0

\* applyGravityField(this.grid, x, y, radius, strength)
ApplyGravityField(src) ==
  /\ \A c \in Cells : Abs(gravity[c][1]) <= GravityRange /\ Abs(gravity[c][2]) <= GravityRange
  /\ gravity' = applyGravityField(gravity, src[1], src[2], src[3], src[4])
  /\ UNCHANGED <<grid, sprites, projectiles, match, econ, bases, gameStarted, isAIMode,
                 aiThinkingDelay, ui, sound, shotLog, turns, search, aimer>>

NextGravity == \E src \in GravitySources : ApplyGravityField(src)

SpecGravity == InitGravity /\ [][NextGravity]_vars

\* ------------------------------------------------ the AI's velocity search
\* aiFireTurrets looks for its own base, then tries launch velocities over a
\* grid of speeds and angles and keeps the one whose simulated path comes
\* closest to the enemy base. Positions and velocities are in SubPx units,
\* distances are compared as squares; the sampling (speeds 2 to 6 in steps of
\* 0.5, angles every 10 degrees in the engine) is coarser here. The collision
\* radius of the own base is smaller than the planet, as it is in the engine
\* (80 world units against a planet radius of 25 tiles of 16 units).
MAX_STEPS == 30
BASE_COLLISION_RADIUS == 10
TARGET_REACHED == 50
SEARCH_SPEEDS == <<10, 20>>
SEARCH_ANGLES == <<-180, -135, -90, -45, 0, 45, 90, 135, 180>>

\* Math.cos and Math.sin of a sampled angle, in thousandths
cosOf(deg) ==
  CASE deg \in {-180, 180} -> -1000
    [] deg \in {-135, 135} -> -707
    [] deg \in {-90, 90} -> 0
    [] deg \in {-45, 45} -> 707
    [] OTHER -> 1000

sinOf(deg) ==
  CASE deg \in {-135, -45} -> -707
    [] deg = -90 -> -1000
    [] deg \in {45, 135} -> 707
    [] deg = 90 -> 1000
    [] OTHER -> 0

\* the candidates in the order of the two loops: speed outside, angle inside
NumCandidates == Len(SEARCH_SPEEDS) * Len(SEARCH_ANGLES)
angleOf(k) == SEARCH_ANGLES[((k - 1) % Len(SEARCH_ANGLES)) + 1]
speedOf(k) == SEARCH_SPEEDS[((k - 1) \div Len(SEARCH_ANGLES)) + 1]
testVx(k) == roundDiv(cosOf(angleOf(k)) * speedOf(k), 1000)
testVy(k) == roundDiv(sinOf(angleOf(k)) * speedOf(k), 1000)

\* gridToWorld in SubPx units
gridToWorldSub(c) == <<gridToWorld(c[1], c[2])[1] * SubPx, gridToWorld(c[1], c[2])[2] * SubPx>>

\* the lookup of the AI's own base at the head of aiFireTurrets: the world
\* position of a sprite of owner 2 named 'Base Planet', or <<>> for null
myBaseWorld(g, ss) ==
  LET found == {c \in Cells : /\ g[c].sprite # NoSprite
                              /\ ss[g[c].sprite].owner = 2
                              /\ ss[g[c].sprite].name = "Base Planet"}
  IN IF found = {} THEN <<>>
     ELSE LET c == CHOOSE c \in found :
                     \A d \in found : c[2] < d[2] \/ (c[2] = d[2] /\ c[1] <= d[1])
          IN gridToWorldSub(<<g[c].centerX, g[c].centerY>>)

\* the gravity of the cell under a position, in SubPx per step
gravityAt(gr, x, y) ==
  LET c == <<x \div (TILE_SIZE * SubPx), y \div (TILE_SIZE * SubPx)>>
  IN IF c \in Cells
     THEN <<roundDiv(gr[c][1] * SubPx, GravUnit), roundDiv(gr[c][2] * SubPx, GravUnit)>>
     ELSE <<0, 0>>

outOfBounds(x, y) ==
  \/ x < 0 \/ x > GRID_WIDTH * TILE_SIZE * SubPx
  \/ y < 0 \/ y > GRID_HEIGHT * TILE_SIZE * SubPx

\* simulateTrajectoryWithCollision from the i-th pass of its loop on
RECURSIVE simulateFrom(_, _, _, _, _, _)
simulateFrom(p, i, closest, target, own, gr) ==
  IF i >= MAX_STEPS THEN [closestDistToTarget |-> closest, hitsOwnBase |-> FALSE]
  ELSE IF own # <<>> /\ DistSq(p.x, p.y, own[1], own[2])
                          < BASE_COLLISION_RADIUS * BASE_COLLISION_RADIUS
  THEN [closestDistToTarget |-> closest, hitsOwnBase |-> TRUE]
  ELSE
    LET dist == DistSq(p.x, p.y, target[1], target[2])
        closest1 == IF dist < closest THEN dist ELSE closest
        a == gravityAt(gr, p.x, p.y)
        q == trajectoryStep(p, a[1], a[2])
    IN IF outOfBounds(q.x, q.y) \/ dist < TARGET_REACHED * TARGET_REACHED
       THEN [closestDistToTarget |-> closest1, hitsOwnBase |-> FALSE]
       ELSE simulateFrom(q, i + 1, closest1, target, own, gr)

simulateTrajectoryWithCollision(start, vx, vy, target, own, gr) ==
  simulateFrom([x |-> start[1], y |-> start[2], vx |-> vx, vy |-> vy], 0, Infinity,
               target, own, gr)

\* the positions that the passes of the simulation loop start from
RECURSIVE simulatedPath(_, _, _, _)
simulatedPath(p, i, target, gr) ==
  IF i >= MAX_STEPS THEN {}
  ELSE
    LET a == gravityAt(gr, p.x, p.y)
        q == trajectoryStep(p, a[1], a[2])
    IN IF \/ outOfBounds(q.x, q.y)
          \/ DistSq(p.x, p.y, target[1], target[2]) < TARGET_REACHED * TARGET_REACHED
       THEN {<<p.x, p.y>>}
       ELSE {<<p.x, p.y>>} \cup simulatedPath(q, i + 1, target, gr)

\* one pass of the angle loop of aiFireTurrets for candidate k
tryCandidate(s, k, own, gr) ==
  LET result == simulateTrajectoryWithCollision(s.start, testVx(k), testVy(k), s.target,
                                                own, gr)
  IN IF result.hitsOwnBase THEN [s EXCEPT !.next = k + 1]
     ELSE IF result.closestDistToTarget < s.bestDistance
     THEN [s EXCEPT !.next = k + 1, !.bestVx = testVx(k), !.bestVy = testVy(k),
                    !.bestDistance = result.closestDistToTarget]
     ELSE [s EXCEPT !.next = k + 1]

\* the match at the AI's turn, before it has built anything
worldAtAITurn(world) ==
  [grid |-> [c \in Cells |-> world.grid[c]],
   sprites |-> [i \in SpriteIds |-> world.sprites[i]], projectiles |-> <<>>,
   gameOver |-> FALSE, winner |-> "none", currentPlayer |-> 2,
   playerOre |-> [p \in Players |-> IF p = 2 THEN START_ORE + baseOreIncome ELSE START_ORE],
   playerEnergy |-> [p \in Players |-> START_ENERGY],
   playerMaxEnergy |-> [p \in Players |-> START_ENERGY],
   playerMineCount |-> [p \in Players |-> 0],
   playerSolarCount |-> [p \in Players |-> 0],
   aiThinkingDelay |-> 0, sound |-> "none", shotLog |-> <<>>, turns |-> 1]

\* the centre of the enemy base as generated, and where other draws of
\* generateWorld put it relative to the turret
SearchTargets == {BaseCell1, <<8, 0>>, <<7, 3>>, <<8, 4>>, <<6, 3>>}

\* the search starts: the AI has built one turret of either kind, at any site
\* it can build on, and aims from it; the gravity cache is the generated one or empty
InitSearch ==
  /\ player1Base = generateWorld.base1
  /\ player2Base = generateWorld.base2
  /\ gravity \in {NoGravity, generateGravity}
  /\ \E texture \in {"turret", "laserTurret"}, t \in SearchTargets,
        w0 \in {worldAtAITurn(generateWorld)} :
     \E c \in offensiveSites(w0, texture) :
     \E w \in {aiPlace(w0, texture, c, ENERGY_COST_TURRET)} :
       /\ grid = w.grid
       /\ sprites = w.sprites
       /\ playerOre = w.playerOre
       /\ playerEnergy = w.playerEnergy
       /\ search = [start |-> <<w.sprites[NumWorld + 1].x * SubPx,
                                w.sprites[NumWorld + 1].y * SubPx>>,
                    target |-> gridToWorldSub(t), next |-> 1,
                    bestVx |-> 0, bestVy |-> 0, bestDistance |-> Infinity]
  /\ projectiles = <<>>
  /\ gameOver = FALSE
  /\ winner = "none"
  /\ currentPlayer = 2
  /\ playerMaxEnergy = [p \in Players |-> START_ENERGY]
  /\ playerMineCount = [p \in Players |-> 0]
  /\ playerSolarCount = [p \in Players |-> 0]
  /\ gameStarted = TRUE
  /\ isAIMode = TRUE
  /\ aiThinkingDelay = 0
  /\ mouseDown = FALSE
  /\ isLaunching = FALSE
  /\ launchSprite = NoSprite
  /\ isDraggingFromToolbar = FALSE
  /\ selectedTexture = "none"
  /\ isDraggingDeleteButton = FALSE
  /\ highlightedBuildingForDelete = NoSprite
  /\ sound = "none"
  /\ shotLog = <<>>
  /\ turns = 1
  /\ aimer = NoAim

\* one pass of the angle loop
TryCandidate ==
  /\ search.next \in 1 .. NumCandidates
  /\ search' = tryCandidate(search, search.next, myBaseWorld(grid, sprites), gravity)
  /\ UNCHANGED <<grid, sprites, projectiles, match, econ, bases, gravity, aimer,
                 gameStarted, isAIMode, aiThinkingDelay, ui, sound, shotLog, turns>>

SpecSearch == InitSearch /\ [][TryCandidate]_vars

\* ============================================================ properties
\* the state functions that the properties speak about
healths == [i \in SpriteIds |-> sprites[i].health]
ammos == [i \in SpriteIds |-> sprites[i].ammo]
occupancy == [c \in Cells |-> grid[c].occupied]
baseFell(base) == base # NoSprite /\ sprites[base].health <= 0

\* the pointer and button events over every toolbar item and position
AnyRequest ==
  Input(Textures, Cells \cup {Outside}, {<<0, -1>>, <<1, 0>>, <<-1, 0>>, <<0, 1>>})

\* C1: whenever a base planet's health is at or below 0, the match is over
\* and the winner is the player who does not own that base
C1_FallenBaseNamesWinner ==
  /\ baseFell(player1Base) => (gameOver /\ winner = "Player 2")
  /\ baseFell(player2Base) => (gameOver /\ winner = "Player 1")

\* C2: gameOver and winner are set at most once: once gameOver is true it
\* stays true and winner never changes, also when the other base falls later
C2_GameOverSetOnce ==
  [][gameOver => (gameOver' /\ winner' = winner)]_vars

\* the second base fell after the match was over: endGame ran a second time
C2_SecondBaseFell ==
  /\ gameOver
  /\ winner = "Player 2"
  /\ baseFell(player1Base)
  /\ baseFell(player2Base)

\* C3: after gameOver no placement, firing, deletion or End Turn request and
\* no AI decision changes the current player, ore, energy, max energy, the
\* mine/solar counts, any turret's ammo, the projectile list or the occupancy
C3_RequestsBlockedAfterGameOver ==
  [][gameOver =>
       /\ endTurn(Cur) = Cur
       /\ executeAITurn(Cur) = {Cur}
       /\ AnyRequest => UNCHANGED <<currentPlayer, econ, ammos, projectiles, occupancy>>]_vars

\* the opponent's decision came due after the match was over and did nothing:
\* it is still player 2's turn with the countdown run out
C3_DecisionBlocked ==
  /\ gameOver
  /\ isAIMode
  /\ currentPlayer = 2
  /\ aiThinkingDelay = 0

\* C4: once gameOver is true no entity's health, no cell's occupancy and no
\* player's ore, energy or counters changes, ticks included
C4_FrozenAfterGameOver ==
  [][gameOver => UNCHANGED <<healths, occupancy, econ>>]_vars

\* the mines of player p that stand on the grid
minesOwned(p) ==
  Cardinality({id \in OnGrid(grid) : sprites[id].name = "Mine" /\ sprites[id].owner = p})

\* C5: an endTurn while the match is not over gives the player who becomes
\* active, owning N mines, exactly 50 + 75 * N ore and sets that player's
\* energy to that player's max energy
C5_EndTurnIncome ==
  [][turns' = turns + 1 =>
       LET p == currentPlayer' IN
       /\ playerOre'[p] = playerOre[p] + 50 + 75 * minesOwned(p)
       /\ playerEnergy'[p] = playerMaxEnergy'[p]]_vars

\* C6: currentPlayer is always 1 or 2, every endTurn executed while the match
\* is not over passes the turn to the other player, and nothing else does
C6_TurnsAlternate ==
  /\ [](currentPlayer \in {1, 2})
  /\ [][/\ turns' # turns => (turns' = turns + 1 /\ currentPlayer' = Other(currentPlayer))
        /\ currentPlayer' # currentPlayer => turns' = turns + 1
        /\ ~gameOver => endTurn(Cur).currentPlayer = Other(currentPlayer)]_vars

\* two turns were ended and player 1 is active again
C6_BackToPlayerOne ==
  /\ turns = 2
  /\ currentPlayer = 1
  /\ ~gameOver

\* C7: for each player, energy <= max energy in every reachable state
C7_EnergyWithinMax ==
  \A p \in Players : playerEnergy[p] <= playerMaxEnergy[p]

\* a solar panel was just removed from the grid and its owner's energy sits
\* at the lowered max energy
C7_SolarRemovedEnergyCapped ==
  /\ sound = "explosion"
  /\ \E id \in SpriteIds :
       /\ sprites[id].name = "Solar Panel"
       /\ id \notin OnGrid(grid)
       /\ playerEnergy[sprites[id].owner] = playerMaxEnergy[sprites[id].owner]
       /\ playerMaxEnergy[sprites[id].owner] < START_ENERGY + SOLAR_ENERGY_BONUS

\* the reasons for which the placement of a building at cell c is rejected
placementInvalid(texture, c) ==
  \/ playerOre[currentPlayer] < CostOf(texture)
  \/ playerEnergy[currentPlayer] < EnergyCostOf(texture)
  \/ ~isPositionWithinShield(c[1], c[2], currentPlayer)
  \/ ~canPlaceInRadius(grid, c[1], c[2], 0, "square")

\* the reasons for which a shot of the weapon id is rejected at release
shotInvalid(id) ==
  \/ sprites[id].ammo <= 0
  \/ playerEnergy[currentPlayer] < FIRE_ENERGY_COST

rejection == [Cur EXCEPT !.sound = "invalidPlacement"]

\* C8: a rejected placement or shot is reported by the rejection signal and
\* leaves ore, energy, max energy, the mine/solar counts, ammo, the
\* projectile list and every grid cell unchanged
C8_RejectionChangesNothing ==
  [][/\ sound' = "invalidPlacement" => UNCHANGED <<econ, ammos, projectiles, grid>>
     /\ \A t \in {"turret", "laserTurret", "mine", "solarPanel"}, c \in PointerCells :
          (HasRoom(sprites) /\ placementInvalid(t, c))
            => placeBuilding(Cur, t, c[1], c[2]) = rejection
     /\ \A id \in OnGrid(grid) :
          (TypeOf(sprites[id].kind) = "Weapon" /\ shotInvalid(id))
            => fireTurret(Cur, id, <<1, 0>>) = rejection
     /\ \A c \in PointerCells :
          (/\ MouseDown(c)
           /\ grid[c].occupied
           /\ spriteAt(grid, c) # NoSprite
           /\ TypeOf(sprites[spriteAt(grid, c)].kind) = "Weapon"
           /\ sprites[spriteAt(grid, c)].owner # currentPlayer
           /\ ~isDraggingFromToolbar)
            => (sound' = "invalidPlacement" /\ UNCHANGED <<isLaunching, launchSprite>>)]_vars

\* a release was just rejected although the player could pay for a turret:
\* the cell is outside the shield or the footprint is not free
C8_PlacementRejected ==
  /\ sound = "invalidPlacement"
  /\ ~mouseDown
  /\ playerOre[currentPlayer] >= ORE_COST_TURRET
  /\ playerEnergy[currentPlayer] >= ENERGY_COST_TURRET

\* C9: every shot is fired from a turret owned by the player who is active
\* when it is fired, and that owner pays its energy
C9_ShotByActiveOwner ==
  \A i \in 1 .. Len(shotLog) :
    /\ shotLog[i].owner = shotLog[i].shooter
    /\ shotLog[i].payer = shotLog[i].owner

\* C10: a shot is fired only when the paying player's energy is at least the
\* energy the shot deducts
C10_ShotAffordable ==
  \A i \in 1 .. Len(shotLog) : shotLog[i].energyBefore >= shotLog[i].cost

\* the shots of a log that the turret id fired, and the energy that the
\* first n shots of a log cost
shotsBy(log, id) == Cardinality({i \in 1 .. Len(log) : log[i].turret = id})

RECURSIVE costOfShots(_, _)
costOfShots(log, n) == IF n = 0 THEN 0 ELSE costOfShots(log, n - 1) + log[n].cost

\* C11: a successful shot takes exactly 1 from the firing turret's ammo, which
\* was above 0, takes the shot's energy cost from the active player exactly
\* once, and adds exactly one projectile that carries the firing turret's
\* damage value; for the shot a player releases and for every shot of a
\* volley of the scripted opponent
C11_ShotEffects ==
  [][/\ (mouseDown /\ ~mouseDown' /\ shotLog' # <<>>) =>
          LET s == shotLog'[1]
              n == Len(projectiles)
          IN /\ Len(shotLog') = 1
             /\ s.ammoBefore > 0
             /\ ammos' = [ammos EXCEPT ![s.turret] = @ - 1]
             /\ playerEnergy' = [playerEnergy EXCEPT ![currentPlayer] = @ - FIRE_ENERGY_COST]
             /\ Len(projectiles') = n + 1
             /\ SubSeq(projectiles', 1, n) = projectiles
             /\ projectiles'[n + 1].firingTurret = s.turret
             /\ projectiles'[n + 1].damage = DamageOf(sprites[s.turret].kind)
     /\ \A w \in aiFireTurrets(Cur) :
          LET n == Len(projectiles) IN
          /\ Len(w.projectiles) = n + Len(w.shotLog)
          /\ SubSeq(w.projectiles, 1, n) = projectiles
          /\ \A i \in 1 .. Len(w.shotLog) :
               LET s == w.shotLog[i]
                   laser == sprites[s.turret].name = "Laser Turret"
               IN /\ s.ammoBefore > 0
                  /\ s.ammoBefore = sprites[s.turret].ammo - shotsBy(SubSeq(w.shotLog, 1, i - 1), s.turret)
                  /\ s.cost = IF laser THEN AI_LASER_SHOT_COST ELSE AI_MISSILE_SHOT_COST
                  /\ s.energyBefore = playerEnergy[2] - costOfShots(w.shotLog, i - 1)
                  /\ w.projectiles[n + i].firingTurret = s.turret
                  /\ w.projectiles[n + i].damage = DamageOf(sprites[s.turret].kind)
          /\ \A id \in SpriteIds : w.sprites[id].ammo = sprites[id].ammo - shotsBy(w.shotLog, id)
          /\ w.playerEnergy[2] = playerEnergy[2] - costOfShots(w.shotLog, Len(w.shotLog))
          /\ w.playerEnergy[1] = playerEnergy[1]]_vars

\* a player's turret has just fired one round: its ammo is one below full and
\* its projectile is in flight
C11_RoundFired ==
  /\ Len(shotLog) = 1
  /\ ~mouseDown
  /\ shotLog[1].cost = FIRE_ENERGY_COST
  /\ sprites[shotLog[1].turret].ammo = TURRET_AMMO - 1
  /\ \E i \in 1 .. Len(projectiles) : projectiles[i].firingTurret = shotLog[1].turret

\* a release that deletes the highlighted building
deletes(id) ==
  /\ mouseDown /\ ~mouseDown'
  /\ ~gameOver
  /\ isDraggingDeleteButton
  /\ highlightedBuildingForDelete = id
  /\ id \in OnGrid(grid)
  /\ id \notin OnGrid(grid')

\* C12: deleting a turret, laser turret, mine or solar panel credits the
\* deleting player exactly floor(c / 4) ore, c being the ore cost charged when
\* a building of that kind is placed
C12_DeleteRefundsQuarterOfCost ==
  [][\A id \in SpriteIds :
       (deletes(id) /\ sprites[id].kind \in {"turret", "laserTurret", "mine", "solarPanel"})
         => playerOre' = [playerOre EXCEPT ![currentPlayer] = @ + (CostOf(sprites[id].kind) \div 4)]]_vars

\* C13: placing a mine or a solar panel and then deleting it returns the
\* player's mine count, solar-panel count and max energy to the values they
\* had before the placement
C13_PlaceThenDeleteRestores ==
  (gameStarted /\ ~gameOver /\ HasRoom(sprites)) =>
    \A t \in {"mine", "solarPanel"}, c \in PointerCells :
      LET placed == placeBuilding(Cur, t, c[1], c[2])
          deleted == deleteBuilding(placed, NumSprites(sprites) + 1, 0)
      IN placed.sound = "placeBuilding" =>
           /\ deleted.playerMineCount = playerMineCount
           /\ deleted.playerSolarCount = playerSolarCount
           /\ deleted.playerMaxEnergy = playerMaxEnergy

\* C14: when moveSprite returns false, for any source cell that holds an
\* entity reference and any destination, every grid cell's occupied flag,
\* entity reference and centerX/centerY are what they were before the call
C14_FailedMoveLeavesGrid ==
  [][\A from \in MoveSources, to \in MoveTargets :
       LET r == moveSprite(grid, sprites, from, to) IN
       (MoveSprite(from, to) /\ ~r.ok /\ ~r.threw) => grid' = grid]_vars

\* the footprint of a sprite on the grid: the cells its radius and shape cover
\* around the cell that is stamped as its centre and references it
centreCells(id) ==
  {c \in Cells : grid[c].sprite = id /\ grid[c].centerX = c[1] /\ grid[c].centerY = c[2]}

footprint(id) ==
  UNION {getCellsInRadius(c[1], c[2], RadiusOf(sprites[id].kind), ShapeOf(sprites[id].kind)) :
           c \in centreCells(id)}

\* C15: after any sequence of placements, deletions, projectile destructions
\* and ticks with moving entities a cell is occupied if and only if it lies in
\* the footprint of an entity on the grid, and no cell lies in the footprint
\* of two entities
C15_OccupiedIffFootprint ==
  /\ \A c \in Cells : grid[c].occupied <=> \E id \in OnGrid(grid) : c \in footprint(id)
  /\ \A a, b \in OnGrid(grid) : a # b => footprint(a) \cap footprint(b) = {}

\* the centres, radii, widths, heights and rotations that the footprint
\* functions are probed with: every cell of the grid and the ring around it
\* for the footprints that the sprites have, three sites for the larger ones
ProbeCentres == ((-1) .. GRID_WIDTH) \X ((-1) .. GRID_HEIGHT)
ProbeRadii == 0 .. 1
ProbeWidths == {2, 5}
ProbeHeights == {1, 2, 3}
ProbeCells == {<<3, 3>>, <<5, 3>>, <<11, 4>>}

allFree(cells) == \A c \in cells : c \in Cells /\ ~grid[c].occupied

\* C16: for every centre, radius and shape canPlaceInRadius returns true if
\* and only if every cell that getCellsInRadius returns for the same arguments
\* is inside the grid and not occupied
C16_CanPlaceIffCellsFree ==
  /\ \A c \in ProbeCentres, r \in ProbeRadii :
       canPlaceInRadius(grid, c[1], c[2], r, "circle")
         <=> allFree(getCellsInRadius(c[1], c[2], r, "circle"))
  /\ \A c \in ProbeCentres :
       canPlaceInRadius(grid, c[1], c[2], 0, "square")
         <=> allFree(getCellsInRadius(c[1], c[2], 0, "square"))
  /\ \A c \in ProbeCells, r \in ProbeRadii :
       canPlaceInRadius(grid, c[1], c[2], r + 1, "square")
         <=> allFree(getCellsInRadius(c[1], c[2], r + 1, "square"))
  /\ \A c \in ProbeCells, wd \in ProbeWidths, ht \in ProbeHeights, q \in 0 .. 3 :
       canPlaceInRectangle(grid, c[1], c[2], wd, ht, q)
         <=> allFree(getCellsInRectangle(c[1], c[2], wd, ht, q))

\* a building stands on the site <<3, 3>>: a footprint laid there is refused
\* because of the occupied cells, one laid at the free site <<5, 3>> is not
C16_SiteTakenSiteFree ==
  /\ grid[<<3, 3>>].occupied
  /\ ~canPlaceInRadius(grid, 3, 3, 0, "square")
  /\ canPlaceInRadius(grid, 5, 3, 0, "square")
  /\ ~canPlaceInRectangle(grid, 5, 3, 5, 2, 0)
  /\ canPlaceInRectangle(grid, 5, 3, 2, 2, 2)

\* the buildings that are placed for a price, and the cell a sprite stands at
PaidKinds == {"turret", "laserTurret", "mine", "solarPanel"}
placedAt(id) == <<worldToGrid(sprites[id].x), worldToGrid(sprites[id].y)>>
baseCentre(p) == IF p = 1 THEN BaseCell1 ELSE BaseCell2

C18_DomeExemptFromShield ==
  (gameStarted /\ ~gameOver /\ HasRoom(sprites)) =>
    \A c \in Cells :
      ~grid[c].occupied =>
        /\ (/\ playerOre[currentPlayer] >= ORE_COST_DOME
             /\ playerEnergy[currentPlayer] >= ENERGY_COST_DOME)
             => placeBuilding(Cur, "domeShield", c[1], c[2]).sound = "placeBuilding"
        /\ (/\ isAIMode
             /\ playerOre[2] >= ORE_COST_DOME
             /\ canDraw(c, BaseCell2, AI_NEAR_LOW, AI_NEAR_HIGH))
             => \E w \in aiBuildNearBase(Cur, "domeShield") :
                  w.grid[c].sprite = NumSprites(sprites) + 1

\* the ore and the energy a mine is tried with: what the active player has,
\* and exactly the price
mineFunds == {<<playerOre[currentPlayer], playerEnergy[currentPlayer]>>,
              <<ORE_COST_MINE, ENERGY_COST_MINE>>}
mineSiteFree(c) ==
  \A d \in getCellsInRadius(c[1], c[2], RadiusOf("mine"), ShapeOf("mine")) :
    d \in Cells /\ ~grid[d].occupied
inOwnShield(c) ==
  DistSq(c[1], c[2], baseCentre(currentPlayer)[1], baseCentre(currentPlayer)[2])
    <= shieldRadius * shieldRadius

C20_AmmoRegeneratesOnce ==
  [][currentPlayer' # currentPlayer =>
       \A id \in OnGrid(grid) :
         HasAmmo(sprites[id].kind) =>
           ammos'[id] = IF sprites[id].owner = currentPlayer'
                        THEN Min(ammos[id] + RegenOf(sprites[id].kind),
                                 MaxAmmoOf(sprites[id].kind))
                        ELSE ammos[id]]_vars

\* the world in which the loop of tick() meets the i-th projectile: the
\* projectiles behind it in the list have been updated already
RECURSIVE projectilesDone(_, _, _, _)
projectilesDone(w, j, i, bonus) ==
  IF j <= i THEN w ELSE projectilesDone(updateProjectile(w, j, bonus), j - 1, i, bonus)

\* the cell the i-th projectile of w is in after its integration step
cellReached(w, i) ==
  <<worldToGrid(w.projectiles[i].x + clampV(w.projectiles[i].vx)),
    worldToGrid(w.projectiles[i].y + clampV(w.projectiles[i].vy))>>

\* the tick of the current state up to the update of the i-th projectile
beforeProjectile(w1, i, bonus) ==
  LET w2 == tickSprites(w1, 0) IN projectilesDone(w2, Len(w2.projectiles), i, bonus)

blackHoles == {id \in SpriteIds : sprites[id].kind = "blackhole"}
holeCells(id) ==
  getCellsInRadius(worldToGrid(sprites[id].x), worldToGrid(sprites[id].y),
                   BLACK_HOLE_RADIUS, "circle")

\* C22: a black hole's health never changes and a black hole is never removed
\* from the grid, whatever hits it; a projectile that reaches a cell of a
\* black hole is removed and damages nothing
C22_BlackHoleUntouched ==
  /\ [][\A id \in blackHoles :
          /\ sprites'[id] = sprites[id]
          /\ \A c \in holeCells(id) : grid[c].sprite = id => grid'[c] = grid[c]]_vars
  /\ [](\A w1 \in aiCountdown(Cur), bonus \in OreBonuses, i \in 1 .. Len(projectiles) :
          LET w == beforeProjectile(w1, i, bonus)
              n == cellReached(w, i)
              after == updateProjectile(w, i, bonus)
          IN (/\ InBounds(n[1], n[2])
              /\ w.grid[n].occupied
              /\ w.grid[n].sprite \in blackHoles) =>
               /\ after.projectiles = splice(w.projectiles, i)
               /\ after.sprites = w.sprites
               /\ after.grid = w.grid)

\* a missile has flown into the black hole: the turret has fired, nothing is
\* in flight, the last sound is the explosion and no sprite has lost health
C22_MissileAbsorbed ==
  /\ blackHoles # {}
  /\ blackHoles \subseteq OnGrid(grid)
  /\ projectiles = <<>>
  /\ sound = "explosion"
  /\ \E id \in OnGrid(grid) : sprites[id].kind = "turret" /\ sprites[id].ammo < TURRET_AMMO
  /\ \A id \in SpriteIds :
       sprites[id].kind # "none" => sprites[id].health = MaxHealthOf(sprites[id].kind)

\* a launched piece has run into the black hole and is gone; the black hole
\* stands
PieceSwallowed ==
  /\ blackHoles # {}
  /\ blackHoles \subseteq OnGrid(grid)
  /\ sound = "explosion"
  /\ \E id \in SpriteIds : sprites[id].kind = "bunny" /\ id \notin OnGrid(grid)

\* one frame of the ticker: the sprite pass, then the projectile loop
afterFrame(w1, bonus) ==
  LET w2 == tickSprites(w1, 0)
  IN tickProjectiles(w2, Len(w2.projectiles), bonus)

\* the projectiles in flight are all in cells whose gravity is zero
inFreeFall ==
  \A i \in 1 .. Len(projectiles) :
    LET c == <<worldToGrid(projectiles[i].x), worldToGrid(projectiles[i].y)>>
    IN c \in Cells /\ gravity[c] = <<0, 0>>

\* C23: every fired projectile is eventually removed from the list of live
\* projectiles. The flight of a projectile depends on the projectile list,
\* the sprites, the grid and the gravity alone, so a frame that leaves them
\* as they are is repeated by every later frame: while projectiles are in
\* flight (in cells without gravity, where the integration step adds
\* nothing), each frame moves or removes a projectile or changes the map
C23_ProjectilesLeave ==
  (projectiles # <<>> /\ inFreeFall) =>
    \A w1 \in aiCountdown(Cur), bonus \in OreBonuses :
      LET w == afterFrame(w1, bonus)
      IN <<w.projectiles, w.sprites, w.grid>> # <<projectiles, sprites, grid>>

speedsAfterStep ==
  {magnitude(q.vx, q.vy) :
     q \in {applyPhysics(projectiles[1], d, a[1], a[2]) : d \in Deltas, a \in Accelerations}
           \cup {trajectoryStep(projectiles[1], a[1], a[2]) : a \in Accelerations}}

fieldOn(gr, src) == applyGravityField(gr, src[1], src[2], src[3], src[4])

\* the squared distance of cell c from the centre of src
distSqFrom(src, c) == DistSq(c[1], c[2], src[1], src[2])

\* C25: applyGravityField adds a source's contribution to what each cell
\* holds.  For every cache reached and all sources: what a field adds to a
\* cell does not depend on what the cell held; two fields applied in either
\* order leave in every cell the held vector plus both contributions; and a
\* source adds nothing to its own centre, nothing beyond its radius and zero
\* at a distance of exactly its radius
C25_FieldsAdd ==
  \A s1 \in GravitySources, s2 \in GravitySources : \A c \in Cells :
    LET own1 == fieldOn(NoGravity, s1)[c]
        own2 == fieldOn(NoGravity, s2)[c]
    IN /\ fieldOn(gravity, s1)[c] = <<gravity[c][1] + own1[1], gravity[c][2] + own1[2]>>
       /\ fieldOn(fieldOn(gravity, s1), s2)[c] = fieldOn(fieldOn(gravity, s2), s1)[c]
       /\ fieldOn(fieldOn(gravity, s1), s2)[c] =
            <<gravity[c][1] + own1[1] + own2[1], gravity[c][2] + own1[2] + own2[2]>>
       /\ (distSqFrom(s1, c) = 0 \/ distSqFrom(s1, c) >= s1[3] * s1[3]) => own1 = <<0, 0>>
       /\ (distSqFrom(s1, c) > 0 /\ distSqFrom(s1, c) < s1[3] * s1[3]) => own1 # <<0, 0>>

\* a cache in which the fields of two sources overlap: some cell holds the sum
\* of two contributions that are both not zero
C25_FieldsOverlap ==
  \E s1 \in GravitySources, s2 \in GravitySources : \E c \in Cells :
    LET own1 == fieldOn(NoGravity, s1)[c]
        own2 == fieldOn(NoGravity, s2)[c]
    IN /\ s1 # s2
       /\ own1 # <<0, 0>>
       /\ own2 # <<0, 0>>
       /\ \A d \in Cells : gravity[d] = fieldOn(fieldOn(NoGravity, s1), s2)[d]

\* the gravity that the sources standing on the grid create: the fields of
\* generateWorld for the planets and the asteroid that a cell still references
gravityOfStanding ==
  asteroidGravity(
    planetGravity(
      planetGravity(NoGravity, 1 \in OnGrid(grid), BaseCell1),
      2 \in OnGrid(grid), BaseCell2),
    3 \in OnGrid(grid), AsteroidCell)

\* C26: when a gravity source is removed from the grid the gravity cache is
\* updated: in every state each cell's gravity is the superposition of the
\* fields of the sources that stand on the grid
C26_GravityOfRemainingSources ==
  \A c \in Cells : gravity[c] = gravityOfStanding[c]

\* one field per generated source with its declared parameters
oncePerSource(gr, placed, cell, radius, strength) ==
  IF placed THEN applyGravityField(gr, cell[1], cell[2], radius, strength) ELSE gr

\* the gravity of a generated world in which every source contributed once
gravityOncePerSource ==
  oncePerSource(
    oncePerSource(
      oncePerSource(
        oncePerSource(NoGravity, 1 \in OnGrid(generateWorld.grid), BaseCell1,
                      PLANET_GRAVITY_RADIUS, PLANET_GRAVITY_STRENGTH),
        2 \in OnGrid(generateWorld.grid), BaseCell2,
        PLANET_GRAVITY_RADIUS, PLANET_GRAVITY_STRENGTH),
      3 \in OnGrid(generateWorld.grid), AsteroidCell,
      ASTEROID_GRAVITY_RADIUS, ASTEROID_GRAVITY_STRENGTH),
    NumSprites(generateBlackHoles(generateWorld).sprites) > NumSprites(generateWorld.sprites),
    BlackHoleCell, BLACK_HOLE_GRAVITY_RADIUS, BLACK_HOLE_GRAVITY_STRENGTH)

\* C27: after world generation every gravity source has contributed to the
\* field exactly once with its declared parameters (planet: radius 35,
\* strength 0.5; black hole: radius 30, strength 1.0): every cell's gravity
\* is the sum of one field per generated source
C27_EachSourceOnce ==
  \A c \in Cells : gravity[c] = gravityOncePerSource[c]

\* the part of the generated cache that comes from the black hole alone
C27_BlackHoleOnce ==
  \A c \in Cells :
    gravity[c] = applyGravityField(generateGravity, BlackHoleCell[1], BlackHoleCell[2],
                                   BLACK_HOLE_GRAVITY_RADIUS, BLACK_HOLE_GRAVITY_STRENGTH)[c]

\* the AI may act: AI mode is on, it is player 2's turn, the match is not over
aiMayAct == isAIMode /\ currentPlayer = 2 /\ ~gameOver

\* C28: the AI changes game state only while AI mode is on, currentPlayer is 2
\* and the match is not over: in every other state the AI countdown at the
\* head of the next frame, expiring or not, changes nothing but the countdown
C28_AIActsOnlyInItsTurn ==
  ~aiMayAct =>
    \A w1 \in aiCountdown(Cur) :
      /\ w1.aiThinkingDelay = (IF aiThinkingDelay > 0 THEN aiThinkingDelay - 1 ELSE 0)
      /\ [w1 EXCEPT !.aiThinkingDelay = aiThinkingDelay] = Cur

\* a countdown that expires in the next frame after the turn went back to
\* player 1
C28_ExpiresInPlayer1Turn ==
  isAIMode /\ aiThinkingDelay = 1 /\ currentPlayer = 1 /\ ~gameOver

\* a countdown that expires in the next frame after the match ended
C28_ExpiresAfterMatch ==
  isAIMode /\ aiThinkingDelay = 1 /\ gameOver

aiBuilds ==
  {w1 \in aiCountdown(Cur) : NumSprites(w1.sprites) = NumSprites(sprites) + 1}

\* the ore and the energy that an AI action took from player 2
aiCharge(w1) ==
  <<playerOre[2] - w1.playerOre[2], playerEnergy[2] - w1.playerEnergy[2]>>

\* what the placement handler charges a human for a building of the kind
humanCharge(kind) == <<CostOf(kind), EnergyCostOf(kind)>>

\* C30: an AI action is charged exactly what the same human action is
\* charged: a building placed by the AI costs player 2 the ore and the energy
\* that the placement handler takes for that kind of building, and every shot
\* costs the energy that the fire handler takes
C30_AIChargedAsHuman ==
  /\ \A w1 \in aiBuilds :
       aiCharge(w1) = humanCharge(w1.sprites[NumSprites(w1.sprites)].kind)
  /\ \A i \in 1 .. Len(shotLog) : shotLog[i].cost = FIRE_ENERGY_COST

\* the part of C30 that holds: the ore of every building, and the energy of
\* a turret, are the human prices
C30_AIOreAsHuman ==
  \A w1 \in aiBuilds :
    LET kind == w1.sprites[NumSprites(w1.sprites)].kind
    IN /\ aiCharge(w1)[1] = CostOf(kind)
       /\ kind \in {"turret", "laserTurret"} => aiCharge(w1)[2] = EnergyCostOf(kind)

\* the energy of the AI's economy buildings is not charged
C30_AIBuildingEnergyAsHuman ==
  \A w1 \in aiBuilds : aiCharge(w1)[2] = EnergyCostOf(w1.sprites[NumSprites(w1.sprites)].kind)

\* the energy of the AI's shots
C30_AIShotEnergyAsHuman ==
  \A i \in 1 .. Len(shotLog) : shotLog[i].cost = FIRE_ENERGY_COST

\* the search is over and has kept a candidate: the velocity that is fired
searchDone == search.next = NumCandidates + 1 /\ search.bestDistance # Infinity

\* the positions that the simulation of the kept candidate went through
chosenPath ==
  simulatedPath([x |-> search.start[1], y |-> search.start[2],
                 vx |-> search.bestVx, vy |-> search.bestVy], 0, search.target, gravity)

withinOwnBase(pos) ==
  DistSq(pos[1], pos[2], gridToWorldSub(BaseCell2)[1], gridToWorldSub(BaseCell2)[2])
    < BASE_COLLISION_RADIUS * BASE_COLLISION_RADIUS

\* C31: the AI never fires a shot whose simulated trajectory (the chosen
\* candidate, before jitter) comes within the collision radius of the AI's
\* own base: no position of the kept candidate's simulated path is within
\* BASE_COLLISION_RADIUS of the centre of player 2's base
C31_ChosenPathAvoidsOwnBase ==
  (searchDone /\ player2Base # NoSprite) => \A pos \in chosenPath : ~withinOwnBase(pos)

\* the filter itself works when it is handed a base: with the centre of
\* player 2's base as ownBaseWorld, a candidate is reported as hitting the
\* own base exactly when its path has a position within the collision radius
C31_GivenBaseDiscards ==
  \A k \in 1 .. NumCandidates :
    simulateTrajectoryWithCollision(search.start, testVx(k), testVy(k), search.target,
                                    gridToWorldSub(BaseCell2), gravity).hitsOwnBase
    <=> \E pos \in simulatedPath([x |-> search.start[1], y |-> search.start[2],
                                  vx |-> testVx(k), vy |-> testVy(k)], 0, search.target,
                                 gravity) : withinOwnBase(pos)

\* the lookup of the own base finds nothing although the base stands
C31_OwnBaseNotFound ==
  player2Base # NoSprite => myBaseWorld(grid, sprites) = <<>>

\* the AI's turrets that have ammo
aiTurretsWithAmmo ==
  {id \in OnGrid(grid) : /\ sprites[id].owner = 2
                         /\ sprites[id].name \in {"Turret", "Laser Turret"}
                         /\ sprites[id].ammo > 0}

\* the total ammo of a set of turrets, each turret counted once
RECURSIVE ammoOfEach(_)
ammoOfEach(ids) ==
  IF ids = {} THEN 0
  ELSE LET t == CHOOSE t \in ids : TRUE IN sprites[t].ammo + ammoOfEach(ids \ {t})

\* a step in which the AI fires its volley: shots that no released drag fired
aiVolley == shotLog' # <<>> /\ ~(mouseDown /\ ~mouseDown')

\* C32: in one firing decision the AI fires at most max(1, floor(0.4 * A)) shots,
\* where A is the total ammo of the AI's turrets that have ammo, each turret
\* counted once.
C32_VolleyWithinShare ==
  [][aiVolley => Len(shotLog') <= Max(1, (4 * ammoOfEach(aiTurretsWithAmmo)) \div 10)]_vars

\* the share is computed from the ammo counted once per cell that refers to the turret
C32_VolleyWithinShareOfCells ==
  [][aiVolley =>
       Len(shotLog') <= Max(1, (4 * SumAmmo(Cur, aiTurretsWithAmmo, 0)) \div 10)]_vars

\* the AI has fired more than one shot from a single turret with full ammo
C32_VolleyOfOneTurret ==
  /\ Len(shotLog) > 1
  /\ \A i \in 1 .. Len(shotLog) : shotLog[i].turret = shotLog[1].turret /\ shotLog[i].shooter = 2
  /\ shotLog[1].ammoBefore = TURRET_AMMO

\* the AI's later turn: in its first turn the AI built an offensive structure,
\* then both players ended their turns (a shot fired in between has left the
\* grid and is refilled by endTurn); turns counts the turns ended from here on
InitVolley ==
  /\ player1Base = generateWorld.base1
  /\ player2Base = generateWorld.base2
  /\ gravity = generateGravity
  /\ search = NoSearch
  /\ aimer = NoAim
  /\ isAIMode = TRUE
  /\ \E texture \in {"turret", "laserTurret"}, w0 \in {worldAtAITurn(generateWorld)} :
     \E c \in offensiveSites(w0, texture) :
     \E w1 \in {aiPlace(w0, texture, c, ENERGY_COST_TURRET)} :
     \E w2 \in {endTurnUnguarded(w1)} :
     \E w3 \in {endTurnUnguarded(w2)} :
       /\ grid = w3.grid
       /\ sprites = w3.sprites
       /\ playerOre = w3.playerOre
       /\ playerEnergy = w3.playerEnergy
       /\ aiThinkingDelay = w3.aiThinkingDelay
  /\ projectiles = <<>>
  /\ gameOver = FALSE
  /\ winner = "none"
  /\ currentPlayer = 2
  /\ playerMaxEnergy = [p \in Players |-> START_ENERGY]
  /\ playerMineCount = [p \in Players |-> 0]
  /\ playerSolarCount = [p \in Players |-> 0]
  /\ gameStarted = TRUE
  /\ mouseDown = FALSE
  /\ isLaunching = FALSE
  /\ launchSprite = NoSprite
  /\ isDraggingFromToolbar = FALSE
  /\ selectedTexture = "none"
  /\ isDraggingDeleteButton = FALSE
  /\ highlightedBuildingForDelete = NoSprite
  /\ sound = "none"
  /\ shotLog = <<>>
  /\ turns = 0

\* the match against the scripted opponent from the AI's later turn on
NextVolley ==
  \/ Input({"turret"}, {<<3, 3>>, <<10, 3>>, Outside}, {<<0, -1>>})
  \/ \E b \in OreBonuses : Tick(b)

SpecVolley == InitVolley /\ [][NextVolley]_vars

\* ------------------------------------------------------------ aim preview
\* the first velocity of the path that drawTrajectory simulates for the
\* pointer at launchStartPos minus drag
drawTrajectory(drag) ==
  [drag |-> drag, vx |-> drag[1] * MISSILE_VELOCITY_SCALE,
   vy |-> drag[2] * MISSILE_VELOCITY_SCALE]

\* canvas "mousemove" while a launch is aimed: the preview is redrawn
AimMove(drag) ==
  /\ gameStarted
  /\ ~isDraggingFromToolbar
  /\ isLaunching /\ launchSprite # NoSprite
  /\ aimer' = drawTrajectory(drag)
  /\ UNCHANGED <<grid, sprites, projectiles, match, econ, bases, gravity, search,
                 gameStarted, isAIMode, aiThinkingDelay, ui, sound, shotLog, turns>>

\* the drags of the aimed gestures
AimDrags == {<<0, -1>>, <<1, 0>>, <<-1, 1>>, <<2, -1>>}

\* player 1 builds a turret or a laser turret, aims and releases the button
\* where the pointer was last moved to
NextAim ==
  \/ StartGame(FALSE)
  \/ \E t \in {"turret", "laserTurret"} : ToolbarDown(t)
  \/ \E c \in {<<3, 3>>} : MouseDown(c)
  \/ \E d \in AimDrags : AimMove(d)
  \/ \E c \in {<<3, 3>>} : MouseUp(c, aimer.drag)

SpecAim == Init /\ [][NextAim]_vars

\* a released drag has fired a shot
firedByRelease == mouseDown /\ ~mouseDown' /\ shotLog' # <<>>

\* C33: for the same drag gesture on the same turret, the aim preview starts
\* from the same initial velocity as the projectile that is actually fired, for
\* standard turrets and for laser turrets.
C33_PreviewAsFired ==
  [][firedByRelease =>
       /\ projectiles'[Len(projectiles')].vx = aimer.vx
       /\ projectiles'[Len(projectiles')].vy = aimer.vy]_vars

\* the shot of a standard turret leaves with the velocity of the preview
C33_MissileAsPreviewed ==
  [][(firedByRelease /\ sprites[launchSprite].name = "Turret") =>
       /\ projectiles'[Len(projectiles')].vx = aimer.vx
       /\ projectiles'[Len(projectiles')].vy = aimer.vy]_vars

\* the shot of a laser turret leaves with 0.15 / 0.1 times the velocity of the preview
C33_LaserFasterThanPreviewed ==
  [][(firedByRelease /\ sprites[launchSprite].name = "Laser Turret") =>
       /\ projectiles'[Len(projectiles')].vx * MISSILE_VELOCITY_SCALE
            = aimer.vx * LASER_VELOCITY_SCALE
       /\ projectiles'[Len(projectiles')].vy * MISSILE_VELOCITY_SCALE
            = aimer.vy * LASER_VELOCITY_SCALE]_vars

\* a laser turret has fired after an aimed drag
C33_LaserFiredAfterAim ==
  /\ projectiles # <<>>
  /\ sprites[projectiles[1].firingTurret].name = "Laser Turret"
  /\ projectiles[1].vx # 0

\* how far a launch at the sampled angle heads towards the target: the cosine
\* of the angle between them, times the distance of the target, in thousandths
toward(deg) ==
  cosOf(deg) * (search.target[1] - search.start[1])
    + sinOf(deg) * (search.target[2] - search.start[2])

\* the candidates with the kept velocity (-180 and 180 give the same one)
keptCandidates == {k \in 1 .. NumCandidates : testVx(k) = search.bestVx /\ testVy(k) = search.bestVy}

\* C34: with no gravity sources on the grid, the candidate that the search
\* selects as best has the sampled launch angle closest to the straight-line
\* direction from the firing turret to the enemy base.
C34_BestIsStraightLine ==
  (searchDone /\ gravity = NoGravity) =>
    \E k \in keptCandidates :
      \A j \in 1 .. Len(SEARCH_ANGLES) : toward(angleOf(k)) >= toward(SEARCH_ANGLES[j])

\* the kept candidate is the first one whose simulation stopped nearest to the
\* target: no candidate before it stopped as near, no candidate at all nearer
C34_BestIsNearestStop ==
  searchDone =>
    \E k \in keptCandidates :
      /\ simulateTrajectoryWithCollision(search.start, testVx(k), testVy(k), search.target,
                                         myBaseWorld(grid, sprites), gravity).closestDistToTarget
           = search.bestDistance
      /\ \A j \in 1 .. NumCandidates :
           simulateTrajectoryWithCollision(search.start, testVx(j), testVy(j), search.target,
                                           myBaseWorld(grid, sprites), gravity).closestDistToTarget
             >= search.bestDistance

\* the path of the kept candidate stopped inside the target radius, and so
\* would the path at a sampled angle nearer to the straight line have done
C34_BothAnglesReach ==
  /\ searchDone /\ gravity = NoGravity
  /\ search.bestDistance < TARGET_REACHED * TARGET_REACHED
  /\ DistSq(search.start[1], search.start[2], search.target[1], search.target[2])
       >= TARGET_REACHED * TARGET_REACHED
  /\ \E k \in keptCandidates :
       \E j \in 1 .. Len(SEARCH_ANGLES) : toward(SEARCH_ANGLES[j]) > toward(angleOf(k))

\* a step of a pointer handler during the AI's turn: every frame of the AI's
\* turn moves its countdown, no handler does
humanStepInAITurn == aiMayAct /\ aiThinkingDelay' = aiThinkingDelay

\* C35: in AI mode, while it is player 2's turn, human input cannot act for
\* player 2: pressing End Turn, placing, firing or deleting during the AI's
\* thinking delay changes no game state, so the AI always takes its turn before
\* play returns to player 1.
C35_NoHumanActionInAITurn ==
  [][humanStepInAITurn => UNCHANGED <<grid, sprites, projectiles, match, econ>>]_vars

\* End Turn was pressed during the AI's thinking delay: the turn is back with
\* player 1 and the AI has neither built nor fired
C35_AITurnSkipped ==
  /\ isAIMode /\ currentPlayer = 1 /\ turns = 2
  /\ NumSprites(sprites) = NumWorld
  /\ playerOre[2] = START_ORE + baseOreIncome
  /\ shotLog = <<>>

\* C36: each player's ore balance is never negative: a placement is charged
\* only when the player can afford it, and the income granted at the start of
\* a turn is never negative.
C36_OreNeverNegative == \A p \in Players : playerOre[p] >= 0

\* the income that endTurn grants a player at the start of the turn
totalOreIncome(p) == baseOreIncome + playerMineCount[p] * orePerMine

\* the income granted at the start of a turn is never negative
C36_IncomeNeverNegative == \A p \in Players : totalOreIncome(p) >= 0

\* no step other than the start of a turn takes a balance below zero
C36_ChargesAreAfforded ==
  [][\A p \in Players :
       (playerOre[p] >= 0 /\ playerOre'[p] < 0) => (turns' = turns + 1 /\ currentPlayer' = p)]_vars

\* a frame in which the asteroid is destroyed
asteroidDestroyed == NumWorld \in OnGrid(grid) /\ NumWorld \notin OnGrid(grid')

\* the owners of the turrets whose projectiles are in flight
shooters == {sprites[projectiles[i].firingTurret].owner : i \in 1 .. Len(projectiles)}

\* C37: the ore reward for destroying an asteroid is credited to the owner of
\* the turret that fired the destroying projectile, also when the turn has
\* changed while the projectile was in flight.
C37_RewardToShooter ==
  [][asteroidDestroyed =>
       \E o \in shooters : /\ playerOre'[o] > playerOre[o]
                           /\ playerOre'[Other(o)] = playerOre[Other(o)]]_vars

\* the reward goes to the player whose turn it is in the frame of the hit
C37_RewardToCurrentPlayer ==
  [][asteroidDestroyed =>
       /\ playerOre'[currentPlayer] > playerOre[currentPlayer]
       /\ playerOre'[Other(currentPlayer)] = playerOre[Other(currentPlayer)]]_vars

\* the asteroid was destroyed in the other player's turn and that player was paid
C37_RewardToOtherPlayer ==
  /\ NumWorld \notin OnGrid(grid)
  /\ \E p \in Players : playerOre[p] >= START_ORE + asteroidBaseReward(MaxHealthOf("asteroid"))
                        /\ \A id \in OnGrid(grid) : sprites[id].owner # p

\* the match at player 1's second turn, after its turret at <<4, 2>> has hit
\* the asteroid twice in its first turn and both players have ended a turn
worldBeforeLastHit(world) ==
  LET w0 == [worldAtAITurn(world) EXCEPT !.currentPlayer = 1,
                                         !.playerOre = [p \in Players |-> START_ORE]]
      w1 == placeBuilding(w0, "turret", 4, 2)
      hit == [w1 EXCEPT !.sprites[NumWorld].health = @ - 2 * DamageOf("turret"),
                        !.sprites[NumWorld + 1].ammo = @ - 2,
                        !.playerEnergy[1] = @ - 2 * FIRE_ENERGY_COST]
  IN [endTurnUnguarded(endTurnUnguarded(hit)) EXCEPT !.sound = "none", !.turns = 0]

\* turns counts the turns ended from here on
InitReward ==
  /\ player1Base = generateWorld.base1
  /\ player2Base = generateWorld.base2
  /\ gravity = generateGravity
  /\ search = NoSearch
  /\ aimer = NoAim
  /\ isAIMode = FALSE
  /\ \E w \in {worldBeforeLastHit(generateWorld)} :
       /\ grid = w.grid
       /\ sprites = w.sprites
       /\ playerOre = w.playerOre
       /\ playerEnergy = w.playerEnergy
       /\ currentPlayer = w.currentPlayer
       /\ turns = w.turns
  /\ projectiles = <<>>
  /\ gameOver = FALSE
  /\ winner = "none"
  /\ playerMaxEnergy = [p \in Players |-> START_ENERGY]
  /\ playerMineCount = [p \in Players |-> 0]
  /\ playerSolarCount = [p \in Players |-> 0]
  /\ gameStarted = TRUE
  /\ aiThinkingDelay = 0
  /\ mouseDown = FALSE
  /\ isLaunching = FALSE
  /\ launchSprite = NoSprite
  /\ isDraggingFromToolbar = FALSE
  /\ selectedTexture = "none"
  /\ isDraggingDeleteButton = FALSE
  /\ highlightedBuildingForDelete = NoSprite
  /\ sound = "none"
  /\ shotLog = <<>>

\* the two-player match from there on
NextReward ==
  \/ Input({"turret"}, {<<4, 2>>, Outside}, {<<0, 0>>, <<1, 0>>})
  \/ \E b \in OreBonuses : Tick(b)

SpecReward == InitReward /\ [][NextReward]_vars

\* the match of SpecFlight comes to the state that SpecReward starts from
C37_BeforeLastHit ==
  \E w \in {worldBeforeLastHit(generateWorld)} :
    /\ \A c \in Cells : grid[c] = w.grid[c]
    /\ \A i \in SpriteIds : sprites[i] = w.sprites[i]
    /\ \A p \in Players : playerOre[p] = w.playerOre[p] /\ playerEnergy[p] = w.playerEnergy[p]
    /\ currentPlayer = w.currentPlayer
    /\ projectiles = <<>> /\ ~gameOver /\ ~mouseDown /\ turns = MaxTurns

\* ------------------------------------------------ the sprite loop's calls
\* the cell at position idx of the row-by-row scan of the sprite loop
cellAt(idx) == <<idx % GRID_WIDTH, idx \div GRID_WIDTH>>

\* the sprites whose update() the sprite loop of tick() calls from position
\* idx of the scan on, in the order of the calls: the cell is tested on the
\* grid as the loop left it, a sprite with a velocity is updated and followed
\* on the grid, a sprite without one is updated where it stands
RECURSIVE updateCalls(_, _)
updateCalls(w, idx) ==
  IF idx >= GRID_WIDTH * GRID_HEIGHT THEN <<>>
  ELSE IF w.grid[cellAt(idx)].sprite # NoSprite /\ isCenterCell(w.grid, cellAt(idx))
       THEN <<w.grid[cellAt(idx)].sprite>> \o updateCalls(updateCell(w, cellAt(idx)), idx + 1)
       ELSE updateCalls(w, idx + 1)

\* how many of the calls are made on the sprite id
callsOn(calls, id) == Cardinality({i \in 1 .. Len(calls) : calls[i] = id})

UpdateCells == {<<3, 3>>, <<0, 0>>}
MaxPieces == 1

\* a two-player match with free pieces dropped at the grid's corner and
\* below player 1's base and launched to the right, to the left and downwards
NextUpdate ==
  \/ StartGame(FALSE)
  \/ ToolbarDown("bunny")
  \/ \E c \in UpdateCells : MouseDown(c)
  \/ \E c \in UpdateCells, d \in {<<1, 0>>, <<-1, 0>>, <<0, 1>>} :
       /\ isDraggingFromToolbar => NumSprites(sprites) < NumWorld + MaxPieces
       /\ MouseUp(c, d)
  \/ \E b \in OreBonuses : Tick(b)

SpecUpdate == Init /\ [][NextUpdate]_vars

\* C38: in each tick update is invoked exactly once for every entity on the
\* grid: in every state, the sprite loop of the next tick calls update()
\* once on each sprite that the grid references
C38_UpdatedOncePerTick ==
  \A id \in OnGrid(grid) : callsOn(updateCalls(Cur, 0), id) = 1

\* the grid entry of the sprite is behind its position in the order of the
\* scan: the sprite has a velocity and the cell of its position, where the
\* loop will write it, comes after the cell that references it
movesAhead(id) ==
  \E c \in Cells :
    /\ grid[c].sprite = id
    /\ isCenterCell(grid, c)
    /\ (sprites[id].vx # 0 \/ sprites[id].vy # 0)
    /\ InBounds(worldToGrid(sprites[id].x), worldToGrid(sprites[id].y))
    /\ cellIndex(<<worldToGrid(sprites[id].x), worldToGrid(sprites[id].y)>>) > cellIndex(c)

\* a sprite is updated more than once only when the loop writes it into a
\* cell that the scan has yet to visit
C38_TwiceOnlyIfAhead ==
  \A id \in OnGrid(grid) :
    callsOn(updateCalls(Cur, 0), id) > 1 => movesAhead(id)

\* a sprite without a velocity that is still on the grid after the loop was
\* updated once, whatever its footprint and its centre column
C38_StandingUpdatedOnce ==
  \A id \in OnGrid(grid) \cap OnGrid(tickSprites(Cur, 0).grid) :
    (sprites[id].vx = 0 /\ sprites[id].vy = 0)
      => callsOn(updateCalls(Cur, 0), id) = 1

\* a sprite is skipped only when a collision earlier in the same loop took
\* it off the grid
C38_SkippedOnlyIfDestroyed ==
  \A id \in OnGrid(grid) :
    callsOn(updateCalls(Cur, 0), id) = 0 => id \notin OnGrid(tickSprites(Cur, 0).grid)

\* a multi-cell sprite stands on the grid and is updated once in the next tick
C38_MultiCellOnce ==
  \E id \in OnGrid(grid) :
    /\ RefCount(grid, id) > 1
    /\ callsOn(updateCalls(Cur, 0), id) = 1

\* a sprite whose centre column is 0 is updated once in the next tick
C38_ColumnZeroOnce ==
  \E c \in Cells :
    /\ c[1] = 0
    /\ grid[c].sprite # NoSprite
    /\ grid[c].centerX = 0
    /\ callsOn(updateCalls(Cur, 0), grid[c].sprite) = 1

\* a launched piece is updated more than once in the next tick
C38_UpdatedTwice ==
  \E id \in OnGrid(grid) : callsOn(updateCalls(Cur, 0), id) > 1

\* ------------------------------------------- where the reference is stored
\* C39: for every entity on the grid the entity reference is stored only in
\* the centre cell of its footprint, after placeSprite as well as after
\* moveSprite: every cell that references a sprite is the centre it names
C39_ReferenceOnlyInCentre ==
  \A c \in Cells :
    grid[c].sprite # NoSprite => (grid[c].centerX = c[1] /\ grid[c].centerY = c[2])

\* a call of moveSprite from a sprite's centre cell that succeeds leaves the
\* reference in the target cell alone
C39_MovedReferencedOnce ==
  \A from \in MoveSources, to \in MoveTargets \cap Cells :
    (/\ grid[from].sprite # NoSprite
     /\ grid[from].centerX = from[1]
     /\ grid[from].centerY = from[2]
     /\ moveSprite(grid, sprites, from, to).ok) =>
      \A c \in Cells :
        moveSprite(grid, sprites, from, to).grid[c].sprite = grid[from].sprite <=> c = to

\* a turret stands where placeSprite put it, referenced by its four cells
C39_TurretInFourCells ==
  \E id \in OnGrid(grid) : sprites[id].kind = "turret" /\ RefCount(grid, id) = 4

\* a turret stands where moveSprite put it, referenced by its centre cell
\* while four cells name that centre
C39_MovedTurretInOneCell ==
  \E c \in Cells :
    /\ grid[c].sprite # NoSprite
    /\ sprites[grid[c].sprite].kind = "turret"
    /\ RefCount(grid, grid[c].sprite) = 1
    /\ Cardinality({d \in Cells : grid[d].occupied /\ grid[d].centerX = c[1]
                                   /\ grid[d].centerY = c[2]}) = 4

====
